---- MODULE Spec2Model ----
(***************************************************************************)
(* A model of the retrieval pipeline of docuchat: the text chunker         *)
(* (documents/index.js), the MMR re-ranker, the retriever and the context  *)
(* formatter (rag/index.js) and the chat orchestration (chat/index.js).    *)
(*                                                                         *)
(* Strings are sequences of one-character strings.  Embedding components   *)
(* are written in fifths (the vector <<4, 3, 0>> is (0.8, 0.6, 0)), and    *)
(* similarities in twenty-fifths, so that every cosine similarity and      *)
(* every vector-store distance of the model is an exact integer.           *)
(***************************************************************************)
EXTENDS Integers, Sequences, FiniteSets, TLC

VARIABLES
    text,            \* chunker: the document text
    chunkSize,       \* chunker: CHUNK_SIZE
    chunkOverlap,    \* chunker: CHUNK_OVERLAP
    chunks,          \* chunker: the list returned by splitTextIntoChunks
    splitter,        \* chunker: "none" | "recursive" | "window" | "threw"
    mmrQuery,        \* re-ranker: queryEmbedding
    mmrChunks,       \* re-ranker: the candidate list passed in
    mmrLambda2,      \* re-ranker: 2 * lambda (1 is lambda = 0.5, 2 is lambda = 1.0)
    mmrK,            \* re-ranker: k
    selectedChunks,  \* re-ranker: selectedChunks
    remainingChunks, \* re-ranker: remainingChunks
    mmrResult,       \* re-ranker: the returned list
    mmrPc,           \* re-ranker: "idle" | "call" | "loop" | "returned"
    embedOf,         \* embedding provider: the vector it returns for each text
    llmHyDE,         \* language model: its reply to each kind of HyDE prompt
    store,           \* vector store: the stored chunk rows, by rowid
    req,             \* chat: the state of each processMessage call in flight
    res,             \* chat: the HTTP response of each call (the SSE stream)
    emb,             \* embeddings: the generateEmbedding(sBatch) call in progress
    cos,             \* similarity engine: a cosineSimilarity call
    ing,             \* ingestion: the processDocument call in progress
    db,              \* ingestion: the documents, chunks and vss_embeddings tables
    up,              \* documents API: the upload requests and the last deleteDocument call
    srv              \* startup: the state of startServer and of the process

chunkVars == <<text, chunkSize, chunkOverlap, chunks, splitter>>
mmrVars == <<mmrQuery, mmrChunks, mmrLambda2, mmrK, selectedChunks,
             remainingChunks, mmrResult, mmrPc>>
chatVars == <<embedOf, llmHyDE, store, req, res>>
ingestVars == <<ing, db>>
serverVars == <<up, srv>>
vars == <<chunkVars, mmrVars, chatVars, emb, cos, ingestVars, serverVars>>
notChunkVars == <<mmrVars, chatVars, emb, cos, ingestVars, serverVars>>
notMMRVars == <<chunkVars, chatVars, emb, cos, ingestVars, serverVars>>
notChatVars == <<chunkVars, mmrVars, emb, cos, ingestVars, serverVars>>
notEmbedVars == <<chunkVars, mmrVars, chatVars, cos, ingestVars, serverVars>>
notCosineVars == <<chunkVars, mmrVars, chatVars, emb, ingestVars, serverVars>>

----------------------------------------------------------------------------
(* Bounds *)

MaxTextLen == 5
MaxChunkSize == 3
MaxCands == 3
MaxK == 3
MaxStore == 3
MaxFallbackStore == 2
MaxStreamStore == 1
MaxLiveStore == 0
MaxPeriod == 13
MaxDeltas == 2
MaxUploads == 2
MaxDeletes == 1
MaxTexts == 3
MaxIngestLen == 2

----------------------------------------------------------------------------
(* Generic helpers *)

Min(a, b) == IF a < b THEN a ELSE b

RECURSIVE Flatten(_)
Flatten(ss) == IF ss = <<>> THEN <<>> ELSE Head(ss) \o Flatten(Tail(ss))

SeqsUpTo(S, n) == UNION {[1..m -> S] : m \in 0..n}

----------------------------------------------------------------------------
(* The chunker: splitTextIntoChunks *)

NL == "\n"
Alphabet == {"a", "b", ".", " ", NL}
Whitespace == {" ", NL}

\* const separators = ['\n\n', '\n', '. ', ' ', '']
separators == << <<NL, NL>>, <<NL>>, <<".", " ">>, <<" ">>, <<>> >>

\* String.prototype.substring(i, j) with 0-based i <= j, clamped to the length
substring(s, i, j) == SubSeq(s, i + 1, Min(j, Len(s)))

\* String.prototype.endsWith
endsWith(s, suffix) ==
    /\ Len(suffix) <= Len(s)
    /\ SubSeq(s, Len(s) - Len(suffix) + 1, Len(s)) = suffix

\* Mutant of TrimNonEmpty: the filter tests chunk !== '' without trimming.
TrimNonEmptyUntrimmed(s) == s # <<>>

\* String.prototype.trim() !== ''
TrimNonEmpty(s) == \E i \in 1..Len(s) : s[i] \notin Whitespace

\* String.prototype.indexOf(sep, position), 1-based; 0 when there is no match
indexOf(s, sep, position) ==
    LET matches == {i \in position..(Len(s) - Len(sep) + 1) :
                       SubSeq(s, i, i + Len(sep) - 1) = sep}
    IN  IF matches = {} THEN 0 ELSE CHOOSE i \in matches : \A j \in matches : i <= j

\* String.prototype.split(sep) for a non-empty separator: left-to-right,
\* non-overlapping matches; p is the start of the current piece.
RECURSIVE SplitFrom(_, _, _)
SplitFrom(s, sep, p) ==
    LET i == indexOf(s, sep, p)
    IN  IF i = 0 THEN << SubSeq(s, p, Len(s)) >>
        ELSE << SubSeq(s, p, i - 1) >> \o SplitFrom(s, sep, i + Len(sep))

StrSplit(s, sep) == SplitFrom(s, sep, 1)

\* Mutant of WindowFrom: the window is one character too wide.
RECURSIVE WindowFromWide(_, _, _, _)
WindowFromWide(s, i, size, overlap) ==
    IF i >= Len(s) THEN <<>>
    ELSE << substring(s, i, i + size + 1) >>
             \o WindowFromWide(s, i + size - overlap, size, overlap)

\* for (let i = 0; i < s.length; i += size - overlap) push(s.substring(i, i + size))
RECURSIVE WindowFrom(_, _, _, _)
WindowFrom(s, i, size, overlap) ==
    IF i >= Len(s) THEN <<>>
    ELSE << substring(s, i, i + size) >> \o WindowFrom(s, i + size - overlap, size, overlap)

\* The inner function _split(text, currentSeparators)
RECURSIVE _split(_, _, _, _)
_split(s, currentSeparators, size, overlap) ==
    IF Len(s) <= size THEN << s >>
    ELSE IF currentSeparators = <<>> THEN WindowFrom(s, 0, size, overlap)
    ELSE LET separator == Head(currentSeparators)
             nextSeparators == Tail(currentSeparators)
         IN  IF separator = <<>> THEN _split(s, nextSeparators, size, overlap)
             ELSE LET splits == StrSplit(s, separator)
                  IN  Flatten([n \in 1..Len(splits) |->
                          IF Len(splits[n]) > size
                          THEN _split(splits[n], nextSeparators, size, overlap)
                          ELSE << splits[n] >>])

\* separators.find(s => prev.endsWith(s)) || ' '
RECURSIVE FindSeparator(_, _)
FindSeparator(prev, seps) ==
    IF seps = <<>> THEN <<" ">>
    ELSE IF endsWith(prev, Head(seps))
         THEN (IF Head(seps) = <<>> THEN <<" ">> ELSE Head(seps))
         ELSE FindSeparator(prev, Tail(seps))

\* The merge loop: i is the 1-based index of the split being added.
RECURSIVE MergeFrom(_, _, _, _, _)
MergeFrom(initialSplits, i, mergedChunks, currentChunk, size) ==
    IF i > Len(initialSplits)
    THEN (IF currentChunk # <<>> THEN Append(mergedChunks, currentChunk) ELSE mergedChunks)
    ELSE LET split == initialSplits[i]
             separator == IF Len(currentChunk) > 0 /\ i > 1
                          THEN FindSeparator(initialSplits[i - 1], separators)
                          ELSE <<>>
             flush == Len(currentChunk) + Len(split) + Len(separator) > size
             merged1 == IF flush THEN Append(mergedChunks, currentChunk) ELSE mergedChunks
             current1 == IF flush THEN <<>> ELSE currentChunk
             current2 == IF Len(current1) > 0 THEN current1 \o separator ELSE current1
         IN  MergeFrom(initialSplits, i + 1, merged1, current2 \o split, size)

\* "Handle overlap and final chunk sizing"
FinalChunks(mergedChunks, size, overlap) ==
    Flatten([n \in 1..Len(mergedChunks) |->
        IF Len(mergedChunks[n]) > size
        THEN WindowFrom(mergedChunks[n], 0, size, overlap)
        ELSE << mergedChunks[n] >>])

\* The recursive, boundary-preserving splitter (for chunkOverlap < chunkSize)
splitTextIntoChunks(s, size, overlap) ==
    LET initialSplits == _split(s, separators, size, overlap)
        mergedChunks == MergeFrom(initialSplits, 1, <<>>, <<>>, size)
        finalChunks == FinalChunks(mergedChunks, size, overlap)
    IN  SelectSeq(finalChunks, TrimNonEmpty)

\* The plain window splitter of src/documents/index.js
RECURSIVE SimpleFrom(_, _, _, _)
SimpleFrom(s, i, size, overlap) ==
    IF i >= Len(s) THEN <<>>
    ELSE LET endIndex == IF i + size > Len(s) THEN Len(s) ELSE i + size
         IN  << substring(s, i, endIndex) >> \o SimpleFrom(s, i + size - overlap, size, overlap)

splitTextIntoChunksSimple(s, size, overlap) == SimpleFrom(s, 0, size, overlap)

ChunkIdle ==
    /\ text = <<>>
    /\ chunkSize = 1
    /\ chunkOverlap = 0
    /\ chunks = <<>>
    /\ splitter = "idle"

MMRIdle ==
    /\ mmrQuery = <<>>
    /\ mmrChunks = <<>>
    /\ mmrLambda2 = 1
    /\ mmrK = 0
    /\ selectedChunks = <<>>
    /\ remainingChunks = <<>>
    /\ mmrResult = <<>>
    /\ mmrPc = "idle"

ChatIdle ==
    /\ embedOf = <<>>
    /\ llmHyDE = <<>>
    /\ store = <<>>
    /\ req = <<>>
    /\ res = <<>>

EmbedIdle == emb = <<>>

CosineIdle == cos = <<>>

IngestIdle == ing = <<>> /\ db = <<>>

ServerIdle == up = <<>> /\ srv = <<>>

ChunkInit ==
    /\ text \in SeqsUpTo(Alphabet, MaxTextLen)
    /\ chunkSize \in 1..MaxChunkSize
    /\ chunkOverlap \in 0..MaxChunkSize
    /\ chunks = <<>>
    /\ splitter = "none"
    /\ MMRIdle
    /\ ChatIdle
    /\ EmbedIdle
    /\ CosineIdle
    /\ IngestIdle
    /\ ServerIdle

\* splitTextIntoChunks(text, CHUNK_SIZE, CHUNK_OVERLAP), recursive splitter
SplitRecursive ==
    /\ splitter = "none"
    /\ chunkOverlap < chunkSize
    /\ chunks' = splitTextIntoChunks(text, chunkSize, chunkOverlap)
    /\ splitter' = "recursive"
    /\ UNCHANGED <<text, chunkSize, chunkOverlap>>
    /\ UNCHANGED notChunkVars

\* splitTextIntoChunks(text, CHUNK_SIZE, CHUNK_OVERLAP), window splitter
SplitSimple ==
    /\ splitter = "none"
    /\ chunkOverlap < chunkSize
    /\ chunks' = splitTextIntoChunksSimple(text, chunkSize, chunkOverlap)
    /\ splitter' = "window"
    /\ UNCHANGED <<text, chunkSize, chunkOverlap>>
    /\ UNCHANGED notChunkVars

\* if (chunkOverlap >= chunkSize) throw new Error(...)
SplitThrows ==
    /\ splitter = "none"
    /\ chunkOverlap >= chunkSize
    /\ splitter' = "threw"
    /\ UNCHANGED <<text, chunkSize, chunkOverlap, chunks>>
    /\ UNCHANGED notChunkVars

ChunkNext == SplitRecursive \/ SplitSimple \/ SplitThrows

----------------------------------------------------------------------------
(* The similarity engine and the re-ranker: maximalMarginalRelevance *)

NaN == "NaN"

Vecs == {<<5, 0, 0>>, <<4, 3, 0>>, <<4, 0, 3>>, <<3, 4, 0>>}

RECURSIVE SumSeq(_)
SumSeq(xs) == IF xs = <<>> THEN 0 ELSE Head(xs) + SumSeq(Tail(xs))

\* Math.sqrt on the squared magnitudes of the model (perfect squares)
Sqrt(n) == CHOOSE r \in 0..n : r * r <= n /\ (r + 1) * (r + 1) > n

\* cosineSimilarity(vecA, vecB), in twenty-fifths.  vecB[i] is undefined
\* beyond the length of vecB, which makes the dot product NaN.
cosineSimilarity(vecA, vecB) ==
    LET undefinedTerm == Len(vecB) < Len(vecA)
        dotProduct == SumSeq([i \in 1..Len(vecA) |-> vecA[i] * vecB[i]])
        magnitudeA == Sqrt(SumSeq([i \in 1..Len(vecA) |-> vecA[i] * vecA[i]]))
        magnitudeB == Sqrt(SumSeq([i \in 1..Len(vecB) |-> vecB[i] * vecB[i]]))
    IN  IF magnitudeA = 0 \/ magnitudeB = 0 THEN 0
        ELSE IF undefinedTerm THEN NaN
        ELSE (dotProduct * 25) \div (magnitudeA * magnitudeB)

\* chunks.map(chunk => ({...chunk, similarity: cosineSimilarity(q, chunk.embedding)}))
RankChunks(queryEmbedding, cs) ==
    [n \in 1..Len(cs) |->
        [cs[n] EXCEPT !.similarity = cosineSimilarity(queryEmbedding, cs[n].embedding)]]

\* Array.prototype.sort((a, b) => b.similarity - a.similarity): a stable sort,
\* so x is placed behind every element that is at least as similar.
RECURSIVE InsertBySimilarity(_, _)
InsertBySimilarity(x, sorted) ==
    IF sorted = <<>> THEN << x >>
    ELSE IF Head(sorted).similarity >= x.similarity
         THEN << Head(sorted) >> \o InsertBySimilarity(x, Tail(sorted))
         ELSE << x >> \o sorted

RECURSIVE SortBySimilarity(_)
SortBySimilarity(cs) ==
    IF cs = <<>> THEN <<>>
    ELSE InsertBySimilarity(cs[Len(cs)], SortBySimilarity(SubSeq(cs, 1, Len(cs) - 1)))

\* Math.max(...selected.map(s => cosineSimilarity(chunk.embedding, s.embedding)))
RECURSIVE MaxDiversity(_, _)
MaxDiversity(chunk, selected) ==
    LET d == cosineSimilarity(chunk.embedding, Head(selected).embedding)
    IN  IF Len(selected) = 1 THEN d
        ELSE LET rest == MaxDiversity(chunk, Tail(selected))
             IN  IF d > rest THEN d ELSE rest

\* score = lambda * relevance - (1 - lambda) * maxDiversity, doubled
MMRScore(chunk, selected, lambda2) ==
    lambda2 * chunk.similarity - (2 - lambda2) * MaxDiversity(chunk, selected)

\* Mutant of BestFrom: a later candidate with an equal score replaces the best.
RECURSIVE BestFromLastWins(_, _, _, _, _, _)
BestFromLastWins(selected, remaining, lambda2, i, bestScore, bestChunkIndex) ==
    IF i > Len(remaining) THEN bestChunkIndex
    ELSE LET score == MMRScore(remaining[i], selected, lambda2)
         IN  IF bestChunkIndex = 0 \/ score >= bestScore
             THEN BestFromLastWins(selected, remaining, lambda2, i + 1, score, i)
             ELSE BestFromLastWins(selected, remaining, lambda2, i + 1, bestScore, bestChunkIndex)

\* The inner for loop: bestChunkIndex 0 is the code's -1 and stands for
\* bestScore = -Infinity, which every score exceeds.
RECURSIVE BestFrom(_, _, _, _, _, _)
BestFrom(selected, remaining, lambda2, i, bestScore, bestChunkIndex) ==
    IF i > Len(remaining) THEN bestChunkIndex
    ELSE LET score == MMRScore(remaining[i], selected, lambda2)
         IN  IF bestChunkIndex = 0 \/ score > bestScore
             THEN BestFrom(selected, remaining, lambda2, i + 1, score, i)
             ELSE BestFrom(selected, remaining, lambda2, i + 1, bestScore, bestChunkIndex)

BestChunkIndex(selected, remaining, lambda2) ==
    BestFrom(selected, remaining, lambda2, 1, 0, 0)

\* Mutant of Splice: the chosen element is not removed.
SpliceKeeps(xs, i) == xs

\* remainingChunks.splice(i, 1): the list without its i-th element
Splice(xs, i) == SubSeq(xs, 1, i - 1) \o SubSeq(xs, i + 1, Len(xs))

\* The while loop of maximalMarginalRelevance
RECURSIVE MMRLoop(_, _, _, _)
MMRLoop(selected, remaining, lambda2, k) ==
    IF Len(selected) < k /\ Len(remaining) > 0
    THEN LET best == BestChunkIndex(selected, remaining, lambda2)
         IN  IF best # 0
             THEN MMRLoop(Append(selected, remaining[best]), Splice(remaining, best), lambda2, k)
             ELSE selected
    ELSE selected

\* Mutant of maximalMarginalRelevance: without the guard for an empty list the
\* undefined result of shift() is selected and returned.
maximalMarginalRelevanceUnguarded(queryEmbedding, cs, lambda2, k) ==
    IF Len(cs) = 0
    THEN << [chunk_id |-> 0, content |-> <<>>, similarity |-> 0, embedding |-> <<>>] >>
    ELSE LET sorted == SortBySimilarity(RankChunks(queryEmbedding, cs))
         IN  MMRLoop(<< Head(sorted) >>, Tail(sorted), lambda2, k)

maximalMarginalRelevance(queryEmbedding, cs, lambda2, k) ==
    IF Len(cs) = 0 THEN <<>>
    ELSE LET sorted == SortBySimilarity(RankChunks(queryEmbedding, cs))
         IN  MMRLoop(<< Head(sorted) >>, Tail(sorted), lambda2, k)

Candidate(n, v) == [chunk_id |-> n, embedding |-> v, similarity |-> 0]

MMRInit ==
    /\ mmrQuery \in Vecs
    /\ \E es \in SeqsUpTo(Vecs, MaxCands) :
           mmrChunks = [n \in 1..Len(es) |-> Candidate(n, es[n])]
    /\ mmrLambda2 \in {1, 2}
    /\ mmrK \in 0..MaxK
    /\ selectedChunks = <<>>
    /\ remainingChunks = <<>>
    /\ mmrResult = <<>>
    /\ mmrPc = "call"
    /\ ChunkIdle
    /\ ChatIdle
    /\ EmbedIdle
    /\ CosineIdle
    /\ IngestIdle
    /\ ServerIdle

\* Entry of maximalMarginalRelevance, up to the while loop
MMRCall ==
    /\ mmrPc = "call"
    /\ IF Len(mmrChunks) = 0
       THEN /\ mmrResult' = <<>>
            /\ mmrPc' = "returned"
            /\ UNCHANGED <<selectedChunks, remainingChunks>>
       ELSE LET sorted == SortBySimilarity(RankChunks(mmrQuery, mmrChunks))
            IN  /\ selectedChunks' = << Head(sorted) >>
                /\ remainingChunks' = Tail(sorted)
                /\ mmrPc' = "loop"
                /\ UNCHANGED mmrResult
    /\ UNCHANGED <<mmrQuery, mmrChunks, mmrLambda2, mmrK>>
    /\ UNCHANGED notMMRVars

\* One iteration of the while loop
MMRIterate ==
    /\ mmrPc = "loop"
    /\ Len(selectedChunks) < mmrK /\ Len(remainingChunks) > 0
    /\ LET best == BestChunkIndex(selectedChunks, remainingChunks, mmrLambda2)
       IN  IF best # 0
           THEN /\ selectedChunks' = Append(selectedChunks, remainingChunks[best])
                /\ remainingChunks' = Splice(remainingChunks, best)
                /\ UNCHANGED <<mmrResult, mmrPc>>
           ELSE /\ mmrResult' = selectedChunks
                /\ mmrPc' = "returned"
                /\ UNCHANGED <<selectedChunks, remainingChunks>>
    /\ UNCHANGED <<mmrQuery, mmrChunks, mmrLambda2, mmrK>>
    /\ UNCHANGED notMMRVars

\* The loop condition fails: return selectedChunks
MMRReturn ==
    /\ mmrPc = "loop"
    /\ ~(Len(selectedChunks) < mmrK /\ Len(remainingChunks) > 0)
    /\ mmrResult' = selectedChunks
    /\ mmrPc' = "returned"
    /\ UNCHANGED <<mmrQuery, mmrChunks, mmrLambda2, mmrK, selectedChunks, remainingChunks>>
    /\ UNCHANGED notMMRVars

MMRNext == MMRCall \/ MMRIterate \/ MMRReturn

----------------------------------------------------------------------------
(* The vector store, the context formatter, the retriever and processMessage *)

\* config.js, scaled to the model: the budget in characters, the thresholds
\* in fiftieths (0.5 and 0.4).
CONTEXT_MAX_LENGTH == 29
SIMILARITY_THRESHOLD == 25
DEEP_SEARCH_INITIAL_THRESHOLD == 20
EMBEDDING_MAX_RETRIES == 2

Query == "q"
Texts == {"q", "h1", "h2"}
HydeTypes == {"Standard", "Context-Aware"}
Failure == "error"
ContentLens == {1, 2}
Contents == {<<>>, <<"x">>, <<"y", "z">>}
Letters == <<"a", "b", "c", "d", "e", "f">>
Digits == <<"0", "1", "2", "3", "4", "5", "6", "7", "8", "9">>

\* The chunk stored under rowid n: its content is len copies of the n-th letter.
StoredRow(n, v, len) == [chunk_id |-> n, embedding |-> v, content |-> [j \in 1..len |-> Letters[n]]]

\* vss_search distance: the squared L2 distance, in twenty-fifths
Distance(a, b) == SumSeq([i \in 1..Len(a) |-> (a[i] - b[i]) * (a[i] - b[i])])

\* ORDER of vss_search: nearest first, rows at the same distance by rowid
RECURSIVE InsertByDistance(_, _)
InsertByDistance(x, sorted) ==
    IF sorted = <<>> THEN << x >>
    ELSE IF Head(sorted).similarity <= x.similarity
         THEN << Head(sorted) >> \o InsertByDistance(x, Tail(sorted))
         ELSE << x >> \o sorted

RECURSIVE NearestFirst(_)
NearestFirst(rows) ==
    IF rows = <<>> THEN <<>>
    ELSE InsertByDistance(rows[Len(rows)], NearestFirst(SubSeq(rows, 1, Len(rows) - 1)))

\* The SQL statement: the limit nearest rows, each with m.distance as similarity
VssSearch(embeddingVector, limit) ==
    LET matches == NearestFirst([n \in 1..Len(store) |->
                       [chunk_id |-> store[n].chunk_id, content |-> store[n].content,
                        similarity |-> Distance(embeddingVector, store[n].embedding),
                        embedding |-> store[n].embedding]])
    IN  SubSeq(matches, 1, Min(limit, Len(matches)))

AboveThreshold(row, threshold) == 2 * row.similarity >= threshold

\* searchSimilarEmbeddings(embeddingVector, limit, overrideThreshold)
searchSimilarEmbeddings(embeddingVector, limit, threshold) ==
    LET results == VssSearch(embeddingVector, limit)
        mapped == [n \in 1..Len(results) |->
                      [results[n] EXCEPT !.similarity = 25 - results[n].similarity]]
    IN  SelectSeq(mapped, LAMBDA row : AboveThreshold(row, threshold))

\* Number -> string conversion of the template literal
RECURSIVE Decimal(_)
Decimal(n) ==
    IF n < 10 THEN << Digits[n + 1] >>
    ELSE Decimal(n \div 10) \o << Digits[(n % 10) + 1] >>

\* `[Source ${includedChunks + 1}]\n`
ChunkHeader(n) == <<"[", "S", "o", "u", "r", "c", "e", " ">> \o Decimal(n) \o <<"]", NL>>

\* `${chunk.content}\n\n`
ChunkContent(chunk) == chunk.content \o <<NL, NL>>

\* Mutant of FitsBudget: the header is not counted.
FitsBudgetWithoutHeader(context, chunkHeader, chunkContent) ==
    Len(context) + Len(chunkContent) <= CONTEXT_MAX_LENGTH

FitsBudget(context, chunkHeader, chunkContent) ==
    Len(context) + Len(chunkHeader) + Len(chunkContent) <= CONTEXT_MAX_LENGTH

\* Mutant of SortedChunks: the chunks are numbered in the order passed in.
SortedChunksAsGiven(cs) == cs

\* const sortedChunks = [...chunks].sort((a, b) => b.similarity - a.similarity)
SortedChunks(cs) == SortBySimilarity(cs)

\* The for loop of formatChunksForContext, from the i-th sorted chunk on
RECURSIVE FormatFrom(_, _, _, _)
FormatFrom(sortedChunks, i, context, includedChunks) ==
    IF i > Len(sortedChunks)
    THEN [context |-> context, includedChunks |-> includedChunks]
    ELSE LET chunkHeader == ChunkHeader(includedChunks + 1)
             chunkContent == ChunkContent(sortedChunks[i])
         IN  IF FitsBudget(context, chunkHeader, chunkContent)
             THEN FormatFrom(sortedChunks, i + 1, context \o chunkHeader \o chunkContent,
                             includedChunks + 1)
             ELSE [context |-> context, includedChunks |-> includedChunks]

FormatResult(cs) ==
    IF Len(cs) = 0 THEN [context |-> <<>>, includedChunks |-> 0]
    ELSE FormatFrom(SortedChunks(cs), 1, <<>>, 0)

formatChunksForContext(cs) == FormatResult(cs).context

\* Mutant of ContextForHyDE: an empty preliminary result still yields a context.
ContextForHyDEAlways(initialChunks) ==
    IF Len(initialChunks) > 0 THEN formatChunksForContext(initialChunks)
    ELSE <<"N", "o", "n", "e">>

\* contextForHyDE after the preliminary search.  null is written as the empty
\* string: the code only tests the truthiness of the context.
ContextForHyDE(initialChunks) ==
    IF Len(initialChunks) > 0 THEN formatChunksForContext(initialChunks) ELSE <<>>

\* const hydeType = isContextAware ? 'Context-Aware' : 'Standard'
HydeType(context) == IF context # <<>> THEN "Context-Aware" ELSE "Standard"

\* Mutant of generateHypotheticalDocument: a failure is handed to the caller.
generateHypotheticalDocumentFailing(query, context) == llmHyDE[HydeType(context)]

\* generateHypotheticalDocument: the reply, or the query when the call fails
generateHypotheticalDocument(query, context) ==
    IF llmHyDE[HydeType(context)] = Failure THEN query ELSE llmHyDE[HydeType(context)]

\* sourceChunks: relevantChunks.map(chunk => ({content, similarity, ...}))
SourceChunks(relevantChunks) ==
    [n \in 1..Len(relevantChunks) |->
        [content |-> relevantChunks[n].content, similarity |-> relevantChunks[n].similarity]]

\* The client's source list: sorted by similarity, labelled Source 1, 2, ...
createSourceChunksElement(sourceChunks) == SortBySimilarity(sourceChunks)

\* The value of a variable that holds no error
NoError == [status |-> 0, cause |-> "", message |-> ""]

\* A processMessage call of POST /api/chat: onProgress is the default no-op
\* and onToken is null.  retries is the counter of the generateEmbedding call
\* in progress, raised the errors the collaborators have raised so far, and
\* error the error thrown to the caller.
NewRequest(deepSearch) ==
    [pc |-> "start", useDeepSearch |-> deepSearch, progress |-> <<>>,
     queryEmbedding |-> <<>>, searchEmbedding |-> <<>>, contextForHyDE |-> <<>>,
     initialChunks |-> <<>>, hypotheticalDocument |-> "", similarChunks |-> <<>>,
     relevantChunks |-> <<>>, context |-> <<>>, sourceChunks |-> <<>>,
     onToken |-> FALSE, retries |-> 0, raised |-> {}, error |-> NoError,
     deltas |-> 0, fullContent |-> <<>>, embedCalls |-> 0, providerCalls |-> 0]

\* The response object of a request before anything was written to it
NewResponse == [events |-> <<>>, writableEnded |-> FALSE]

StoreRows == Vecs \X ContentLens

EnvInit(maxStore) ==
    /\ embedOf \in {e \in [Texts -> Vecs] :
           e["q"] = <<3, 4, 0>> /\ e["h1"] \in {<<5, 0, 0>>, <<4, 0, 3>>} /\ e["h2"] = <<4, 3, 0>>}
    /\ llmHyDE \in {l \in [HydeTypes -> {"h1", "h2", Query, Failure}] :
           l["Standard"] # "h2" /\ l["Context-Aware"] # "h1"}
    /\ \E rows \in SeqsUpTo(StoreRows, maxStore) :
           store = [n \in 1..Len(rows) |-> StoredRow(n, rows[n][1], rows[n][2])]

\* One processMessage call, in either search mode
ChatInit ==
    /\ EnvInit(MaxStore)
    /\ \E deepSearch \in BOOLEAN : req = << NewRequest(deepSearch) >>
    /\ res = << NewResponse >>
    /\ ChunkIdle
    /\ MMRIdle
    /\ EmbedIdle
    /\ CosineIdle
    /\ IngestIdle
    /\ ServerIdle

\* Two concurrent processMessage calls for the same query, one in deep-search
\* mode and one in standard mode
FallbackInit ==
    /\ EnvInit(MaxFallbackStore)
    /\ req = << NewRequest(TRUE), NewRequest(FALSE) >>
    /\ res = << NewResponse, NewResponse >>
    /\ ChunkIdle
    /\ MMRIdle
    /\ EmbedIdle
    /\ CosineIdle
    /\ IngestIdle
    /\ ServerIdle

\* Errors as the collaborators raise them: the embedding and language-model
\* client (status, cause.code, message) and the database driver
RateLimitError == [status |-> 429, cause |-> "", message |-> "429 Too Many Requests"]
ConnectionError == [status |-> 0, cause |-> "ECONNREFUSED", message |-> "Connection error."]
ServerError == [status |-> 500, cause |-> "", message |-> "500 Internal Server Error"]
SqliteError == [status |-> 0, cause |-> "", message |-> "SQLITE_ERROR"]
ProviderErrors == {RateLimitError, ConnectionError, ServerError}

\* new Error(message)
Error(message) == [status |-> 0, cause |-> "", message |-> message]

\* What one call of the embedding provider may come back with: an error, or
\* data whose embedding is a vector, the empty array or an all-zero vector
EmptyVector == <<>>
ZeroVector == <<0, 0, 0>>
ErrorResponse(error) == [error |-> error, embedding |-> EmptyVector]
DataResponse(embedding) == [error |-> NoError, embedding |-> embedding]
InvalidResponses == {DataResponse(EmptyVector), DataResponse(ZeroVector)}
FailedResponses == {ErrorResponse(error) : error \in ProviderErrors} \cup InvalidResponses

Abs(x) == IF x < 0 THEN -x ELSE x

\* embedding.reduce((acc, val) => acc + Math.abs(val), 0)
AbsSum(embedding) == SumSeq([i \in 1..Len(embedding) |-> Abs(embedding[i])])

\* The try block of generateEmbedding: the error that takes it to the catch
\* block, NoError when the embedding is returned
Thrown(response) ==
    IF response.error # NoError THEN response.error
    ELSE IF Len(response.embedding) = 0 THEN Error("API returned empty embedding data")
    ELSE IF AbsSum(response.embedding) = 0
         THEN Error("API returned an embedding with all zero values.")
    ELSE NoError

\* error.status === 429 || error.code === 429
IsRateLimit(error) == error.status = 429

\* error.message?.includes('Connection error') || error.cause?.code === ...
IsConnectionError(error) ==
    \/ error.message = "Connection error."
    \/ error.cause \in {"ECONNREFUSED", "ENOTFOUND", "ETIMEDOUT"}

\* Mutant of Retries: every error is retried while retries are left.
RetriesAnyError(error, retries) == retries + 1 <= EMBEDDING_MAX_RETRIES

\* if (retries <= maxRetries) { await sleep(retryDelay); continue; }, after retries++
Retries(error, retries) == IsRateLimit(error) /\ retries + 1 <= EMBEDDING_MAX_RETRIES

\* The error generateEmbedding throws from its catch block
generateEmbeddingError(error) ==
    IF IsConnectionError(error)
    THEN Error("Failed to connect to embedding API server")
    ELSE Error("Failed to generate embedding: " \o error.message)

\* An error and the call that raised it
Raised(source, error) == [source |-> source, error |-> error]

\* catch (error) { console.error(...); throw error; } of searchSimilarEmbeddings
searchSimilarEmbeddingsCatch(error) == error

\* Mutant of retrieveRelevantChunksCatch: the error is wrapped in a new one.
retrieveRelevantChunksWraps(error) == Error("Retrieval failed: " \o error.message)

\* catch (error) { console.error(...); throw error; } of retrieveRelevantChunks
retrieveRelevantChunksCatch(error) == error

\* catch (error) { console.error(...); throw error; } of processMessage
processMessageCatch(error) == error

\* The progress events onProgress writes to the response, when the request is
\* served by GET /api/chat
Written(r, next) ==
    IF req[r].onToken
    THEN [n \in 1..(Len(next.progress) - Len(req[r].progress)) |->
             [event |-> "progress", data |-> next.progress[Len(req[r].progress) + n]]]
    ELSE <<>>

\* A step of request r that also writes events to its response, and ends it
\* when end is TRUE
StepWrite(r, next, events, end) ==
    /\ req' = [req EXCEPT ![r] = next]
    /\ res' = [res EXCEPT ![r] = [events |-> @.events \o Written(r, next) \o events,
                                  writableEnded |-> @.writableEnded \/ end]]
    /\ UNCHANGED <<embedOf, llmHyDE, store>>
    /\ UNCHANGED notChatVars

Step(r, next) == StepWrite(r, next, <<>>, FALSE)

\* Mutant of Starting: the notification is sent with every provider call.
StartingAgain(r) == Append(req[r].progress, "Starting retrieval...")

\* onProgress({ message: 'Starting retrieval...' }), which
\* precedes the first provider call of generateEmbedding(query)
Starting(r) ==
    IF req[r].retries = 0 /\ req[r].pc = "start"
    THEN Append(req[r].progress, "Starting retrieval...")
    ELSE req[r].progress

\* retrieveRelevantChunks up to the first await: generateEmbedding(query)
EmbedQuery(r) ==
    /\ req[r].pc = "start"
    /\ Step(r, [req[r] EXCEPT
           !.progress = Starting(r),
           !.queryEmbedding = embedOf[Query],
           !.searchEmbedding = embedOf[Query],
           !.retries = 0,
           !.embedCalls = @ + 1,
           !.providerCalls = @ + 1,
           !.pc = IF req[r].useDeepSearch THEN "initialSearch" ELSE "hyde"])

\* Deep search, stage 1: the preliminary search and the context for HyDE
InitialSearch(r) ==
    /\ req[r].pc = "initialSearch"
    /\ LET initialChunks == searchSimilarEmbeddings(req[r].queryEmbedding, 20,
                                                    DEEP_SEARCH_INITIAL_THRESHOLD)
       IN  Step(r, [req[r] EXCEPT
               !.progress = IF Len(initialChunks) > 0
                            THEN @ \o <<"Performing initial search...",
                                        "Generating context-aware answer...">>
                            ELSE Append(@, "Performing initial search..."),
               !.initialChunks = initialChunks,
               !.contextForHyDE = ContextForHyDE(initialChunks),
               !.pc = "hyde"])

\* Mutant of ReEmbeds: the hypothetical document is always embedded.
ReEmbedsAlways(hypotheticalDocument, query) == TRUE

\* if (hypotheticalDocument !== query)
ReEmbeds(hypotheticalDocument, query) == hypotheticalDocument # query

\* generateHypotheticalDocument(query, history, contextForHyDE, onProgress)
GenerateHyDE(r) ==
    /\ req[r].pc = "hyde"
    /\ LET hypotheticalDocument == generateHypotheticalDocument(Query, req[r].contextForHyDE)
       IN  Step(r, [req[r] EXCEPT
               !.progress = Append(@, "Generating " \o HydeType(req[r].contextForHyDE)
                                          \o " hypothetical answer..."),
               !.hypotheticalDocument = hypotheticalDocument,
               !.pc = IF ReEmbeds(hypotheticalDocument, Query) THEN "embedHyde" ELSE "finalSearch"])

\* searchEmbedding = await generateEmbedding(hypotheticalDocument)
EmbedHypothetical(r) ==
    /\ req[r].pc = "embedHyde"
    /\ Step(r, [req[r] EXCEPT
           !.searchEmbedding = embedOf[req[r].hypotheticalDocument],
           !.retries = 0,
           !.embedCalls = @ + 1,
           !.providerCalls = @ + 1,
           !.pc = "finalSearch"])

\* similarChunks = await searchSimilarEmbeddings(searchEmbedding, 50)
FinalSearch(r) ==
    /\ req[r].pc = "finalSearch"
    /\ Step(r, [req[r] EXCEPT
           !.progress = Append(@, "Performing final search..."),
           !.similarChunks = searchSimilarEmbeddings(req[r].searchEmbedding, 50,
                                                     SIMILARITY_THRESHOLD),
           !.pc = "rerank"])

\* maximalMarginalRelevance(queryEmbedding, similarChunks) with lambda = 0.5,
\* k = 10, and the return of retrieveRelevantChunks
Rerank(r) ==
    /\ req[r].pc = "rerank"
    /\ Step(r, [req[r] EXCEPT
           !.progress = Append(@, "Re-ranking results..."),
           !.relevantChunks = maximalMarginalRelevance(req[r].queryEmbedding,
                                                       req[r].similarChunks, 1, 10),
           !.pc = "format"])

\* processMessage: formatChunksForContext and the request to the language model
FormatContext(r) ==
    /\ req[r].pc = "format"
    /\ Step(r, [req[r] EXCEPT
           !.context = formatChunksForContext(req[r].relevantChunks),
           !.pc = "answer"])

\* processMessage without onToken: the answer arrives and the result is returned
Respond(r) ==
    /\ req[r].pc = "answer"
    /\ ~req[r].onToken
    /\ Step(r, [req[r] EXCEPT
           !.sourceChunks = SourceChunks(req[r].relevantChunks),
           !.pc = "done"])

\* generateEmbedding: the provider answers 429 and the call is retried after
\* the delay
EmbeddingRateLimited(r) ==
    /\ req[r].pc \in {"start", "embedHyde"}
    /\ Retries(RateLimitError, req[r].retries)
    /\ Step(r, [req[r] EXCEPT
           !.progress = Starting(r),
           !.retries = @ + 1,
           !.providerCalls = @ + 1,
           !.raised = @ \cup {Raised("provider", RateLimitError)}])

\* generateEmbedding throws: the provider failed, kept answering 429, or
\* returned an empty or all-zero vector.  retrieveRelevantChunks and
\* processMessage rethrow what they catch.
EmbeddingFails(r) ==
    /\ req[r].pc \in {"start", "embedHyde"}
    /\ \E response \in FailedResponses :
           /\ ~Retries(Thrown(response), req[r].retries)
           /\ LET error == generateEmbeddingError(Thrown(response))
              IN  Step(r, [req[r] EXCEPT
                      !.progress = Starting(r),
                      !.raised = @ \cup {Raised("generateEmbedding", error)}
                                   \cup (IF response.error # NoError
                                         THEN {Raised("provider", response.error)} ELSE {}),
                      !.error = processMessageCatch(retrieveRelevantChunksCatch(error)),
                      !.embedCalls = @ + 1,
                      !.providerCalls = @ + 1,
                      !.pc = "threw"])

\* The progress notification that precedes a search
Searching(r) ==
    Append(req[r].progress, IF req[r].pc = "initialSearch"
                            THEN "Performing initial search..."
                            ELSE "Performing final search...")

\* searchSimilarEmbeddings catches a database error and rethrows it
SearchFails(r) ==
    /\ req[r].pc \in {"initialSearch", "finalSearch"}
    /\ Step(r, [req[r] EXCEPT
           !.progress = Searching(r),
           !.raised = @ \cup {Raised("searchSimilarEmbeddings",
                                      searchSimilarEmbeddingsCatch(SqliteError))},
           !.error = processMessageCatch(retrieveRelevantChunksCatch(
                         searchSimilarEmbeddingsCatch(SqliteError))),
           !.pc = "threw"])

\* processMessage with onToken: the streaming completion is requested
RequestAnswer(r) ==
    /\ req[r].pc = "answer"
    /\ req[r].onToken
    /\ Step(r, [req[r] EXCEPT
           !.progress = Append(@, "Generating response..."),
           !.pc = "streaming"])

\* Mutant of Concat: the content is put in front of the text received so far.
ConcatInFront(fullContent, content) == content \o fullContent

\* fullContent += content
Concat(fullContent, content) == fullContent \o content

\* One chunk of the completion stream; a chunk without content is skipped
StreamDelta(r) ==
    /\ req[r].pc = "streaming"
    /\ req[r].deltas < MaxDeltas
    /\ \E content \in Contents :
           StepWrite(r, [req[r] EXCEPT
                            !.deltas = @ + 1,
                            !.fullContent = IF content # <<>> THEN Concat(@, content) ELSE @],
                     IF content # <<>> THEN << [event |-> "token", data |-> content] >> ELSE <<>>,
                     FALSE)

\* The completion stream is exhausted and processMessage returns its result
StreamEnds(r) ==
    /\ req[r].pc = "streaming"
    /\ Step(r, [req[r] EXCEPT
           !.sourceChunks = SourceChunks(req[r].relevantChunks),
           !.pc = "done"])

\* The language-model request, or its stream, fails; processMessage rethrows
StreamFails(r) ==
    /\ req[r].pc = "streaming"
    /\ \E error \in {ConnectionError, ServerError} :
           Step(r, [req[r] EXCEPT
               !.raised = @ \cup {Raised("completion", error)},
               !.error = processMessageCatch(error),
               !.pc = "threw"])

\* GET /api/chat without a message: the error event and return res.end()
MissingMessage(r) ==
    /\ req[r].pc = "handler"
    /\ StepWrite(r, [req[r] EXCEPT !.pc = "closed"],
                 << [event |-> "error", data |-> "Message is required"] >>, TRUE)

\* GET /api/chat with a history that JSON.parse rejects
BadHistory(r) ==
    /\ req[r].pc = "handler"
    /\ Step(r, [req[r] EXCEPT
           !.error = Error("Unexpected token in JSON"),
           !.pc = "threw"])

\* GET /api/chat: processMessage(message, parsedHistory, useDeepSearch, onProgress, onToken)
CallProcessMessage(r) ==
    /\ req[r].pc = "handler"
    /\ Step(r, [req[r] EXCEPT !.pc = "start"])

\* Mutant of FinalEvents: an error event follows the final event.
FinalEventsAndError(r) ==
    << [event |-> "final", data |-> req[r].fullContent],
       [event |-> "error", data |-> req[r].error.message] >>

\* res.write(`event: final\ndata: ${JSON.stringify(finalResponse)}\n\n`)
FinalEvents(r) == << [event |-> "final", data |-> req[r].fullContent] >>

\* GET /api/chat: processMessage returned; the final event, then res.end()
WriteFinal(r) ==
    /\ req[r].pc = "done"
    /\ req[r].onToken
    /\ StepWrite(r, [req[r] EXCEPT !.pc = "closed"], FinalEvents(r), TRUE)

\* GET /api/chat: the catch block writes the error event, then res.end()
WriteError(r) ==
    /\ req[r].pc = "threw"
    /\ req[r].onToken
    /\ StepWrite(r, [req[r] EXCEPT !.pc = "closed"],
                 << [event |-> "error", data |-> req[r].error.message] >>, TRUE)

\* A request to GET /api/chat: the handler has set the headers
NewStream(deepSearch) ==
    [NewRequest(deepSearch) EXCEPT !.pc = "handler", !.onToken = TRUE]

\* One request to GET /api/chat, against a store of up to maxStore rows
StreamRequest(maxStore) ==
    /\ EnvInit(maxStore)
    /\ \E deepSearch \in BOOLEAN : req = << NewStream(deepSearch) >>
    /\ res = << NewResponse >>
    /\ ChunkIdle
    /\ MMRIdle
    /\ EmbedIdle
    /\ CosineIdle
    /\ IngestIdle
    /\ ServerIdle

ChatNext ==
    \/ \E r \in DOMAIN req : EmbedQuery(r)
    \/ \E r \in DOMAIN req : InitialSearch(r)
    \/ \E r \in DOMAIN req : GenerateHyDE(r)
    \/ \E r \in DOMAIN req : EmbedHypothetical(r)
    \/ \E r \in DOMAIN req : FinalSearch(r)
    \/ \E r \in DOMAIN req : Rerank(r)
    \/ \E r \in DOMAIN req : FormatContext(r)
    \/ \E r \in DOMAIN req : Respond(r)

StreamInit == StreamRequest(MaxStreamStore)

StreamLiveInit == StreamRequest(MaxLiveStore)

StreamNext ==
    \/ \E r \in DOMAIN req : MissingMessage(r)
    \/ \E r \in DOMAIN req : BadHistory(r)
    \/ \E r \in DOMAIN req : CallProcessMessage(r)
    \/ \E r \in DOMAIN req : EmbedQuery(r)
    \/ \E r \in DOMAIN req : EmbeddingRateLimited(r)
    \/ \E r \in DOMAIN req : EmbeddingFails(r)
    \/ \E r \in DOMAIN req : InitialSearch(r)
    \/ \E r \in DOMAIN req : SearchFails(r)
    \/ \E r \in DOMAIN req : GenerateHyDE(r)
    \/ \E r \in DOMAIN req : EmbedHypothetical(r)
    \/ \E r \in DOMAIN req : FinalSearch(r)
    \/ \E r \in DOMAIN req : Rerank(r)
    \/ \E r \in DOMAIN req : FormatContext(r)
    \/ \E r \in DOMAIN req : RequestAnswer(r)
    \/ \E r \in DOMAIN req : StreamDelta(r)
    \/ \E r \in DOMAIN req : StreamEnds(r)
    \/ \E r \in DOMAIN req : StreamFails(r)
    \/ \E r \in DOMAIN req : WriteFinal(r)
    \/ \E r \in DOMAIN req : WriteError(r)

----------------------------------------------------------------------------
(* The embedding client: generateEmbedding and generateEmbeddingsBatch *)

\* batchSize = 20, scaled to the size of the model
batchSize == 2

\* What the provider may put in data.data[n].embedding
ItemEmbeddings == Vecs \cup {EmptyVector, ZeroVector}

\* The responses to a request for the embeddings of n texts
Responses(n) ==
    {[error |-> error, data |-> <<>>] : error \in ProviderErrors}
        \cup {[error |-> NoError, data |-> data] : data \in [1..n -> ItemEmbeddings]}

\* Mutant of InvalidItem: only an empty embedding is refused.
InvalidItemIfEmpty(embedding) == Len(embedding) = 0

\* !item.embedding || item.embedding.reduce((a, b) => a + Math.abs(b), 0) === 0
\* (the sum over an empty array is the initial value 0)
InvalidItem(embedding) == AbsSum(embedding) = 0

\* The try block of generateEmbeddingsBatch: the error that takes it to the
\* catch block, NoError when the batch succeeds
BatchThrown(response) ==
    IF response.error # NoError THEN response.error
    ELSE IF \E n \in 1..Len(response.data) : InvalidItem(response.data[n])
         THEN Error("Invalid embedding returned in batch")
    ELSE NoError

\* The try block of the function emb.fn
ThrownIn(fn, response) ==
    IF fn = "generateEmbedding"
    THEN Thrown([error |-> response.error,
                 embedding |-> IF response.data = <<>> THEN EmptyVector
                               ELSE response.data[1]])
    ELSE BatchThrown(response)

\* The error thrown from the catch block of the function emb.fn
ErrorOf(fn, error) ==
    IF fn = "generateEmbedding" THEN generateEmbeddingError(error)
    ELSE Error("Failed to generate embeddings batch: " \o error.message)

\* texts.slice(i, i + batchSize).length
BatchLength == Min(batchSize, emb.texts - emb.i)

\* A call of generateEmbedding(text), or of generateEmbeddingsBatch(texts)
\* with up to MaxTexts texts, at the head of its loop.  calls counts the
\* provider calls of each batch, data is the data of the last response and
\* thrown what the last try block threw.
EmbedInit ==
    /\ \E fn \in {"generateEmbedding", "generateEmbeddingsBatch"} :
       \E texts \in 0..MaxTexts :
           /\ fn = "generateEmbedding" => texts = 1
           /\ emb = [fn |-> fn, texts |-> texts, i |-> 0, retries |-> 0, calls |-> <<0>>,
                     data |-> <<>>, thrown |-> NoError, embeddings |-> <<>>, pc |-> "loop",
                     error |-> NoError]
    /\ ChunkIdle
    /\ MMRIdle
    /\ ChatIdle
    /\ CosineIdle
    /\ IngestIdle
    /\ ServerIdle

Called == [emb.calls EXCEPT ![Len(emb.calls)] = @ + 1]

\* The provider call succeeds: generateEmbedding returns the embedding,
\* generateEmbeddingsBatch pushes the batch and goes to the next one
CallSucceeds ==
    /\ emb.pc = "loop"
    /\ emb.i < emb.texts
    /\ emb.retries <= EMBEDDING_MAX_RETRIES
    /\ \E response \in Responses(BatchLength) :
           /\ ThrownIn(emb.fn, response) = NoError
           /\ emb' = [emb EXCEPT
                  !.embeddings = @ \o response.data,
                  !.data = response.data,
                  !.thrown = NoError,
                  !.i = @ + batchSize,
                  !.retries = 0,
                  !.calls = IF emb.fn = "generateEmbeddingsBatch"
                               /\ emb.i + batchSize < emb.texts
                            THEN Append(Called, 0) ELSE Called,
                  !.pc = IF emb.fn = "generateEmbedding" THEN "returned" ELSE "loop"]
    /\ UNCHANGED notEmbedVars

\* The provider answers 429 and retries are left: sleep, then call again
CallRetried ==
    /\ emb.pc = "loop"
    /\ emb.i < emb.texts
    /\ emb.retries <= EMBEDDING_MAX_RETRIES
    /\ \E response \in Responses(BatchLength) :
           /\ Retries(ThrownIn(emb.fn, response), emb.retries)
           /\ emb' = [emb EXCEPT
                  !.data = response.data,
                  !.thrown = ThrownIn(emb.fn, response),
                  !.retries = @ + 1,
                  !.calls = Called]
    /\ UNCHANGED notEmbedVars

\* The try block throws and the call is not retried: the function throws
CallThrows ==
    /\ emb.pc = "loop"
    /\ emb.i < emb.texts
    /\ emb.retries <= EMBEDDING_MAX_RETRIES
    /\ \E response \in Responses(BatchLength) :
           /\ ThrownIn(emb.fn, response) # NoError
           /\ ~Retries(ThrownIn(emb.fn, response), emb.retries)
           /\ emb' = [emb EXCEPT
                  !.data = response.data,
                  !.thrown = ThrownIn(emb.fn, response),
                  !.retries = IF IsRateLimit(ThrownIn(emb.fn, response)) THEN @ + 1 ELSE @,
                  !.calls = Called,
                  !.error = ErrorOf(emb.fn, ThrownIn(emb.fn, response)),
                  !.pc = "threw"]
    /\ UNCHANGED notEmbedVars

\* generateEmbeddingsBatch: the for loop is over, return embeddings
BatchReturns ==
    /\ emb.pc = "loop"
    /\ emb.fn = "generateEmbeddingsBatch"
    /\ emb.i >= emb.texts
    /\ emb' = [emb EXCEPT !.pc = "returned"]
    /\ UNCHANGED notEmbedVars

EmbedNext == CallSucceeds \/ CallRetried \/ CallThrows \/ BatchReturns

----------------------------------------------------------------------------
(* The similarity engine called on its own: cosineSimilarity(vecA, vecB) *)

\* Vectors of one, two and three dimensions, the zero vectors among them
CosineVecs ==
    Vecs \cup {<<0, 0, 0>>, <<3, 4>>, <<4, 3>>, <<5, 0>>, <<0, 0>>, <<5>>}

CosineInit ==
    /\ \E vecA, vecB \in CosineVecs :
           cos = [vecA |-> vecA, vecB |-> vecB, pc |-> "call", result |-> 0]
    /\ ChunkIdle
    /\ MMRIdle
    /\ ChatIdle
    /\ EmbedIdle
    /\ IngestIdle
    /\ ServerIdle

\* The call returns; no statement of the function throws for two arrays
CosineReturns ==
    /\ cos.pc = "call"
    /\ cos' = [cos EXCEPT !.pc = "returned",
                          !.result = cosineSimilarity(cos.vecA, cos.vecB)]
    /\ UNCHANGED notCosineVars

CosineNext == CosineReturns

----------------------------------------------------------------------------
(* Ingestion: processDocument and the tables it writes *)

\* The document being processed and a document that is already stored
documentId == "d1"
StoredDocument == "d0"

\* file.mimetype: two supported types and one that is not
Mimetypes == {"text/plain", "application/pdf", "image/png"}

\* The rows of the chunks table that belong to document id
ChunkRows(table, id) == {row \in table.chunks : row.document_id = id}

\* The rows of vss_embeddings that belong to document id (by chunk rowid)
EmbeddingRows(table, id) ==
    {e \in table.vss_embeddings : \E row \in ChunkRows(table, id) : row.rowid = e.rowid}

\* The rowid SQLite gives to the n-th row inserted next
NextRowid(table, n) ==
    n + (IF table.chunks = {} THEN 0
         ELSE CHOOSE m \in {row.rowid : row \in table.chunks} :
                  \A row \in table.chunks : row.rowid <= m)

\* Mutant of deleteDocument: the chunks and embeddings go, the document stays.
deleteDocumentRowsOnly(table, id) ==
    [table EXCEPT !.chunks = @ \ ChunkRows(table, id),
                  !.vss_embeddings = @ \ EmbeddingRows(table, id)]

\* deleteDocument(id): one transaction that deletes the embeddings of the
\* document's chunks and the document; its chunks go by ON DELETE CASCADE
deleteDocument(table, id) ==
    [documents |-> table.documents \ {id},
     chunks |-> table.chunks \ ChunkRows(table, id),
     vss_embeddings |-> table.vss_embeddings \ EmbeddingRows(table, id)]

\* insertChunks(chunkRecords): one transaction
insertChunks(table, id, contents) ==
    [table EXCEPT !.chunks = @ \cup
        {[rowid |-> NextRowid(table, n), document_id |-> id, content |-> contents[n]] :
            n \in 1..Len(contents)}]

\* The rowid of the n-th chunk of document id, in insertion order
RowidOf(table, id, n) ==
    CHOOSE m \in {row.rowid : row \in ChunkRows(table, id)} :
        Cardinality({row \in ChunkRows(table, id) : row.rowid <= m}) = n

\* insertEmbedding({chunkId, embedding}) for the n-th chunk of document id
insertEmbedding(table, id, n, embedding) ==
    [table EXCEPT !.vss_embeddings = @ \cup
        {[rowid |-> RowidOf(table, id, n), embedding |-> embedding]}]

\* Mutant of SplitResult: an overlap that is not below the size is tolerated
\* and the text is kept as one chunk.
SplitResultLenient(t, size, overlap) ==
    IF overlap >= size THEN [threw |-> FALSE, chunks |-> << t >>]
    ELSE [threw |-> FALSE, chunks |-> splitTextIntoChunks(t, size, overlap)]

\* splitTextIntoChunks with its guard: whether it throws, and what it returns
SplitResult(t, size, overlap) ==
    IF overlap >= size THEN [threw |-> TRUE, chunks |-> <<>>]
    ELSE [threw |-> FALSE, chunks |-> splitTextIntoChunks(t, size, overlap)]

\* processDocument(file, fileHash) before its first statement, for a file
\* whose text is text, with CHUNK_SIZE = chunkSize and CHUNK_OVERLAP =
\* chunkOverlap, and a database that holds one complete document
IngestInit ==
    /\ text \in SeqsUpTo({"a", " "}, MaxIngestLen)
    /\ chunkSize \in 1..MaxChunkSize
    /\ chunkOverlap \in 0..MaxChunkSize
    /\ chunks = <<>>
    /\ splitter = "none"
    /\ \E mimetype \in Mimetypes :
           ing = [pc |-> "insertDocument", mimetype |-> mimetype, embeddings |-> <<>>,
                  i |-> 0, error |-> NoError, cleanupError |-> NoError]
    /\ db = [documents |-> {StoredDocument},
             chunks |-> {[rowid |-> 1, document_id |-> StoredDocument, content |-> <<"a">>]},
             vss_embeddings |-> {[rowid |-> 1, embedding |-> <<5, 0, 0>>]}]
    /\ MMRIdle
    /\ ChatIdle
    /\ EmbedIdle
    /\ CosineIdle
    /\ ServerIdle

IngestStep(pc) ==
    /\ ing' = [ing EXCEPT !.pc = pc]
    /\ UNCHANGED <<chunkVars, mmrVars, chatVars, emb, cos, serverVars>>

\* await insertDocument(document)
InsertDocument ==
    /\ ing.pc = "insertDocument"
    /\ db' = [db EXCEPT !.documents = @ \cup {documentId}]
    /\ IngestStep("extract")

\* The text of a pdf or text file is read
ExtractText ==
    /\ ing.pc = "extract"
    /\ ing.mimetype # "image/png"
    /\ UNCHANGED db
    /\ IngestStep("split")

\* chunks = splitTextIntoChunks(textContent, CHUNK_SIZE, CHUNK_OVERLAP), and
\* await insertChunks(chunkRecords)
SplitAndInsertChunks ==
    /\ ing.pc = "split"
    /\ ~SplitResult(text, chunkSize, chunkOverlap).threw
    /\ chunks' = SplitResult(text, chunkSize, chunkOverlap).chunks
    /\ splitter' = "recursive"
    /\ db' = insertChunks(db, documentId, chunks')
    /\ ing' = [ing EXCEPT !.pc = "embed"]
    /\ UNCHANGED <<text, chunkSize, chunkOverlap, mmrVars, chatVars, emb, cos, serverVars>>

\* splitTextIntoChunks throws 'chunkOverlap must be smaller than chunkSize'
SplitFails ==
    /\ ing.pc = "split"
    /\ SplitResult(text, chunkSize, chunkOverlap).threw
    /\ splitter' = "threw"
    /\ ing' = [ing EXCEPT !.pc = "cleanup",
                          !.error = Error("chunkOverlap must be smaller than chunkSize")]
    /\ UNCHANGED <<text, chunkSize, chunkOverlap, chunks, db, mmrVars, chatVars, emb, cos, serverVars>>

\* embeddings = await generateEmbeddingsBatch(chunkContents)
GenerateEmbeddings ==
    /\ ing.pc = "embed"
    /\ \E embeddings \in [1..Len(chunks) -> {<<5, 0, 0>>, <<3, 4, 0>>}] :
           ing' = [ing EXCEPT !.embeddings = embeddings,
                              !.pc = IF Len(chunks) = 0 THEN "return" ELSE "insertEmbedding"]
    /\ UNCHANGED <<db, chunkVars, mmrVars, chatVars, emb, cos, serverVars>>

\* await insertEmbedding(embeddingRecord), one iteration of the for loop
InsertEmbedding ==
    /\ ing.pc = "insertEmbedding"
    /\ db' = insertEmbedding(db, documentId, ing.i + 1, ing.embeddings[ing.i + 1])
    /\ ing' = [ing EXCEPT !.i = @ + 1,
                          !.pc = IF ing.i + 1 < Len(chunks) THEN "insertEmbedding" ELSE "return"]
    /\ UNCHANGED <<chunkVars, mmrVars, chatVars, emb, cos, serverVars>>

\* return { id, name, type, size, chunks }
IngestReturns ==
    /\ ing.pc = "return"
    /\ UNCHANGED db
    /\ IngestStep("returned")

\* The error of the statement at which processDocument stands, when it fails:
\* a database error, a file that cannot be read or is not supported, or the
\* error of generateEmbeddingsBatch
FailureAt(pc) ==
    IF pc = "extract"
    THEN {Error("Unsupported file type: image/png"), Error("ENOENT")}
    ELSE IF pc = "embed"
    THEN {Error("Failed to generate embeddings batch: Connection error.")}
    ELSE {SqliteError}

\* A statement of the try block throws; the transaction of a failed database
\* call is rolled back
IngestFails ==
    /\ ing.pc \in {"insertDocument", "extract", "embed", "insertEmbedding"}
    /\ \E error \in FailureAt(ing.pc) :
           /\ ing.pc = "extract" =>
                  (ing.mimetype = "image/png" <=> error.message # "ENOENT")
           /\ ing' = [ing EXCEPT !.pc = "cleanup", !.error = error]
    /\ UNCHANGED <<db, chunkVars, mmrVars, chatVars, emb, cos, serverVars>>

\* insertChunks fails after the text was split
InsertChunksFails ==
    /\ ing.pc = "split"
    /\ ~SplitResult(text, chunkSize, chunkOverlap).threw
    /\ chunks' = SplitResult(text, chunkSize, chunkOverlap).chunks
    /\ splitter' = "recursive"
    /\ ing' = [ing EXCEPT !.pc = "cleanup", !.error = SqliteError]
    /\ UNCHANGED <<text, chunkSize, chunkOverlap, db, mmrVars, chatVars, emb, cos, serverVars>>

\* The catch block: await deleteDocument(documentId), then throw error
Cleanup ==
    /\ ing.pc = "cleanup"
    /\ db' = deleteDocument(db, documentId)
    /\ IngestStep("threw")

\* The catch block when deleteDocument throws: the cleanup error is logged
\* and dropped, then throw error
CleanupFails ==
    /\ ing.pc = "cleanup"
    /\ UNCHANGED db
    /\ ing' = [ing EXCEPT !.pc = "threw", !.cleanupError = SqliteError]
    /\ UNCHANGED <<chunkVars, mmrVars, chatVars, emb, cos, serverVars>>

IngestNext ==
    \/ InsertDocument
    \/ ExtractText
    \/ SplitAndInsertChunks
    \/ SplitFails
    \/ GenerateEmbeddings
    \/ InsertEmbedding
    \/ IngestReturns
    \/ IngestFails
    \/ InsertChunksFails
    \/ Cleanup
    \/ CleanupFails

----------------------------------------------------------------------------
(* Specifications *)

SpecChunk == ChunkInit /\ [][ChunkNext]_vars

SpecMMR == MMRInit /\ [][MMRNext]_vars

SpecChat == ChatInit /\ [][ChatNext]_vars

SpecFallback == FallbackInit /\ [][ChatNext]_vars

SpecIngest == IngestInit /\ [][IngestNext]_vars

SpecCosine == CosineInit /\ [][CosineNext]_vars

SpecEmbed == EmbedInit /\ [][EmbedNext]_vars

\* Every await of the embedding client settles: the provider answers or fails,
\* and the retry delay elapses
SpecEmbedLive == SpecEmbed /\ WF_vars(EmbedNext)

SpecStream == StreamInit /\ [][StreamNext]_vars

\* Every await of the handler settles: the collaborators answer or fail
SpecStreamLive == StreamLiveInit /\ [][StreamNext]_vars /\ WF_vars(StreamNext)

----------------------------------------------------------------------------
(* Properties of the chunker *)

Split == splitter \in {"recursive", "window"}

\* C1: for chunkSize >= 1 and 0 <= chunkOverlap < chunkSize, every chunk
\* returned by splitTextIntoChunks (either splitter) has length <= chunkSize.
ChunkLengthBounded ==
    Split => \A n \in 1..Len(chunks) : Len(chunks[n]) <= chunkSize

\* A text longer than chunkSize was split with a positive overlap into
\* several chunks, one of them exactly chunkSize long.
ChunkLengthWitness ==
    /\ splitter = "recursive"
    /\ chunkOverlap > 0
    /\ Len(text) > chunkSize
    /\ Len(chunks) >= 2
    /\ \E n \in 1..Len(chunks) : Len(chunks[n]) = chunkSize

\* Position i of the text lies inside an occurrence of one of the chunks.
Covered(i) ==
    \E n \in 1..Len(chunks) : \E o \in 0..(Len(text) - Len(chunks[n])) :
        /\ SubSeq(text, o + 1, o + Len(chunks[n])) = chunks[n]
        /\ o < i /\ i <= o + Len(chunks[n])

\* C2: the chunks of the recursive splitter cover the input with no gaps:
\* every character of the text appears in at least one chunk.  Stated for
\* the non-whitespace characters only, which no trimming step may drop.
ChunksCoverText ==
    splitter = "recursive" =>
        \A i \in 1..Len(text) : text[i] \notin Whitespace => Covered(i)

----------------------------------------------------------------------------
(* Properties of the re-ranker *)

Ranked == RankChunks(mmrQuery, mmrChunks)

\* C3: the list returned by maximalMarginalRelevance has length exactly
\* min(k, number of candidates), for every non-negative k.
MMRLengthIsMin ==
    mmrPc = "returned" => Len(mmrResult) = Min(mmrK, Len(mmrChunks))

NoRepeat(cs) ==
    \A i, j \in 1..Len(cs) : i # j => cs[i].chunk_id # cs[j].chunk_id

\* C4: no candidate is selected twice: the returned list holds each input
\* candidate at most once, and during the loop selectedChunks and
\* remainingChunks are disjoint and together hold exactly the input candidates.
MMRNeverSelectsTwice ==
    /\ mmrPc \in {"loop", "returned"} /\ Len(mmrChunks) > 0 =>
           LET both == selectedChunks \o remainingChunks
           IN  /\ NoRepeat(both)
               /\ {both[n] : n \in 1..Len(both)} = {Ranked[n] : n \in 1..Len(Ranked)}
    /\ mmrPc = "returned" =>
           /\ NoRepeat(mmrResult)
           /\ \A n \in 1..Len(mmrResult) :
                  mmrResult[n] = Ranked[mmrResult[n].chunk_id]

\* Three candidates, two of them with the same embedding, were all selected.
MMRNeverSelectsTwiceWitness ==
    /\ mmrPc = "returned"
    /\ Len(mmrResult) = 3
    /\ \E i, j \in 1..Len(mmrResult) :
           i # j /\ mmrResult[i].embedding = mmrResult[j].embedding

\* C5: with lambda = 1.0 the result is exactly the first k candidates of the
\* input sorted by relevance to the query in descending order, for every k.
MMRLambdaOneIsTopK ==
    mmrPc = "returned" /\ mmrLambda2 = 2 =>
        mmrResult = SubSeq(SortBySimilarity(Ranked), 1, Min(mmrK, Len(mmrChunks)))

\* The candidate chosen by the step selectedChunks -> selectedChunks'
Chosen(selected1) == selected1[Len(selected1)]

TiedAtMax(selected, remaining, chosen) ==
    {n \in 1..Len(remaining) :
        MMRScore(remaining[n], selected, mmrLambda2) = MMRScore(chosen, selected, mmrLambda2)}

HasMaxScore(selected, remaining, chosen) ==
    \A n \in 1..Len(remaining) :
        MMRScore(remaining[n], selected, mmrLambda2) <= MMRScore(chosen, selected, mmrLambda2)

IsSelection == mmrPc = "loop" /\ Len(selectedChunks') = Len(selectedChunks) + 1

\* C6 as stated: in every iteration, among the unselected candidates that
\* share the maximum MMR score, the one earliest in the input list is selected.
MMRTiesByInputOrder ==
    [][IsSelection =>
        LET chosen == Chosen(selectedChunks')
        IN  /\ HasMaxScore(selectedChunks, remainingChunks, chosen)
            /\ \A n \in TiedAtMax(selectedChunks, remainingChunks, chosen) :
                   chosen.chunk_id <= remainingChunks[n].chunk_id]_vars

\* C6 as amended: in every iteration, among the unselected candidates that
\* share the maximum MMR score, the one with the highest relevance to the
\* query is selected, and among equally relevant ones the earliest in the
\* input list (the first of the relevance-sorted remaining list).
MMRTiesByRelevanceThenInputOrder ==
    [][IsSelection =>
        LET chosen == Chosen(selectedChunks')
        IN  /\ HasMaxScore(selectedChunks, remainingChunks, chosen)
            /\ \A n \in TiedAtMax(selectedChunks, remainingChunks, chosen) :
                   \/ chosen.similarity > remainingChunks[n].similarity
                   \/ /\ chosen.similarity = remainingChunks[n].similarity
                      /\ chosen.chunk_id <= remainingChunks[n].chunk_id]_vars

\* An iteration has selected a candidate although a candidate earlier in the
\* input list had the same (maximum) score.
MMRTieWitness ==
    /\ mmrPc \in {"loop", "returned"}
    /\ Len(selectedChunks) >= 2
    /\ LET before == SubSeq(selectedChunks, 1, Len(selectedChunks) - 1)
           chosen == Chosen(selectedChunks)
       IN  \E n \in 1..Len(remainingChunks) :
              /\ MMRScore(remainingChunks[n], before, mmrLambda2)
                     = MMRScore(chosen, before, mmrLambda2)
              /\ remainingChunks[n].chunk_id < chosen.chunk_id

----------------------------------------------------------------------------
(* Properties of the context formatter and of processMessage *)

\* The text of the first m passages of cs, numbered [Source 1] .. [Source m]
RECURSIVE Render(_, _)
Render(cs, m) ==
    IF m = 0 THEN <<>>
    ELSE Render(cs, m - 1) \o ChunkHeader(m) \o ChunkContent(cs[m])

\* The number of [Source N] headers in a context text
NumBlocks(context) == Cardinality({i \in 1..Len(context) : context[i] = "["})

WholeBlocks(context, cs) ==
    \E m \in 0..Len(cs) : context = Render(SortBySimilarity(cs), m)

\* C7: every string returned by formatChunksForContext (the context of the
\* answer and the context handed to HyDE) has length <= CONTEXT_MAX_LENGTH
\* and consists of whole passage blocks only.
ContextWithinBudget ==
    \A r \in DOMAIN req :
        /\ Len(req[r].context) <= CONTEXT_MAX_LENGTH
        /\ Len(req[r].contextForHyDE) <= CONTEXT_MAX_LENGTH
        /\ WholeBlocks(req[r].context, req[r].relevantChunks)
        /\ WholeBlocks(req[r].contextForHyDE, req[r].initialChunks)

\* A context that fills the budget exactly, a third passage having been dropped.
ContextWithinBudgetWitness ==
    \E r \in DOMAIN req :
        /\ req[r].pc = "done"
        /\ Len(req[r].relevantChunks) = 3
        /\ NumBlocks(req[r].context) = 2
        /\ Len(req[r].context) = CONTEXT_MAX_LENGTH

\* C8 as stated: the passage under header [Source N] of the context is the
\* N-th passage of the returned list sourceChunks.
SourceNumbersMatchReturnedList ==
    \A r \in DOMAIN req :
        req[r].pc = "done" =>
            /\ NumBlocks(req[r].context) <= Len(req[r].sourceChunks)
            /\ req[r].context = Render(req[r].sourceChunks, NumBlocks(req[r].context))

\* C8 as amended: the passage under header [Source N] of the context is the
\* N-th passage of the returned list once that list is sorted by similarity
\* in descending order, which is how the client numbers the sources it shows.
SourceNumbersMatchSortedList ==
    \A r \in DOMAIN req :
        req[r].pc = "done" =>
            /\ NumBlocks(req[r].context) <= Len(req[r].sourceChunks)
            /\ req[r].context = Render(createSourceChunksElement(req[r].sourceChunks),
                                       NumBlocks(req[r].context))

\* An answer whose context holds two passages that the returned list has in
\* another order.
SourceNumbersWitness ==
    \E r \in DOMAIN req :
        /\ req[r].pc = "done"
        /\ NumBlocks(req[r].context) = 2
        /\ req[r].context # Render(req[r].sourceChunks, 2)

\* C9: the returned candidate list holds exactly the passages that
\* formatChunksForContext included in the context text.
SourcesAreIncludedPassages ==
    \A r \in DOMAIN req :
        req[r].pc = "done" =>
            /\ Len(req[r].sourceChunks) = NumBlocks(req[r].context)
            /\ req[r].context = Render(createSourceChunksElement(req[r].sourceChunks),
                                       Len(req[r].sourceChunks))

\* C10: for the same query and collaborator responses, a deep-search retrieval
\* whose preliminary search found nothing returns the same ordered passage
\* list as a standard retrieval.
FallbackEquivalence ==
    \A d, t \in DOMAIN req :
        /\ req[d].useDeepSearch /\ ~req[t].useDeepSearch
        /\ req[d].pc = "done" /\ req[t].pc = "done"
        /\ req[d].initialChunks = <<>>
        => /\ req[d].relevantChunks = req[t].relevantChunks
           /\ req[d].sourceChunks = req[t].sourceChunks

\* Both retrievals are done, the preliminary search of the deep one found
\* nothing, and the search with the hypothetical document found two passages.
FallbackEquivalenceWitness ==
    \E d, t \in DOMAIN req :
        /\ req[d].useDeepSearch /\ ~req[t].useDeepSearch
        /\ req[d].pc = "done" /\ req[t].pc = "done"
        /\ req[d].initialChunks = <<>>
        /\ req[d].hypotheticalDocument = "h1"
        /\ Len(req[d].relevantChunks) = 2

----------------------------------------------------------------------------
(* Properties of the failure paths of retrieval *)

\* The language model fails on the HyDE prompt that request r sends
HyDEFails(r) == llmHyDE[HydeType(req[r].contextForHyDE)] = Failure

\* C11: generateHypotheticalDocument never fails its caller: when the language
\* model fails it returns the query unchanged, no error is thrown, and
\* retrieveRelevantChunks goes on to the final search (with the embedding of
\* the query) and the re-ranking.
HyDEFailureFallsBack ==
    [][\A r \in DOMAIN req :
          req[r].pc = "hyde" /\ req'[r].pc # "hyde" /\ HyDEFails(r) =>
              /\ req'[r].hypotheticalDocument = Query
              /\ req'[r].error = NoError
              /\ req'[r].pc = "finalSearch"
              /\ req'[r].searchEmbedding = req[r].queryEmbedding]_vars

\* A retrieval whose HyDE call failed has done the final search and the
\* re-ranking, and has selected a passage.
HyDEFailureWitness ==
    \E r \in DOMAIN req :
        /\ HyDEFails(r)
        /\ req[r].hypotheticalDocument = Query
        /\ req[r].pc = "format"
        /\ Len(req[r].relevantChunks) >= 1
        /\ req[r].progress[Len(req[r].progress)] = "Re-ranking results..."

\* The positions of a request inside retrieveRelevantChunks
RetrievalStages == {"start", "initialSearch", "hyde", "embedHyde", "finalSearch", "rerank"}

\* retrieveRelevantChunks has returned or thrown
RetrievalOver(r) == req[r].pc \notin RetrievalStages \cup {"handler"}

\* The errors raised to request r by the calls named in sources
RaisedBy(r, sources) == {x \in req[r].raised : x.source \in sources}

\* C12 as stated: an error raised by the embedding provider or by the
\* vector-store search at any stage of retrieveRelevantChunks is the error
\* its caller receives, unmodified, and no passage list is returned.
ProviderErrorsReachCallerUnmodified ==
    \A r \in DOMAIN req :
        RetrievalOver(r) =>
            \A x \in RaisedBy(r, {"provider", "searchSimilarEmbeddings"}) :
                /\ req[r].error = x.error
                /\ req[r].relevantChunks = <<>>

\* C12 as amended: an error thrown by generateEmbedding or by
\* searchSimilarEmbeddings at any stage of retrieveRelevantChunks is the error
\* its caller receives, unmodified, and no passage list is returned.  An
\* error of the embedding provider itself is either a 429 that
\* generateEmbedding retried, or reaches the caller replaced by the error
\* generateEmbedding makes of it.
ThrownErrorsReachCallerUnmodified ==
    \A r \in DOMAIN req :
        RetrievalOver(r) =>
            /\ \A x \in RaisedBy(r, {"generateEmbedding", "searchSimilarEmbeddings"}) :
                   /\ req[r].error = x.error
                   /\ req[r].relevantChunks = <<>>
                   /\ req[r].pc \in {"threw", "closed"}
            /\ \A x \in RaisedBy(r, {"provider"}) :
                   \/ IsRateLimit(x.error)
                   \/ req[r].error = generateEmbeddingError(x.error)

\* The embedding of the hypothetical document failed on a connection error,
\* after the preliminary search had found a passage, and the handler has
\* reported the error of generateEmbedding.
ThrownErrorsWitness ==
    \E r \in DOMAIN req :
        /\ req[r].pc = "closed"
        /\ Len(req[r].initialChunks) >= 1
        /\ req[r].hypotheticalDocument = "h2"
        /\ Raised("provider", ConnectionError) \in req[r].raised
        /\ req[r].error = Error("Failed to connect to embedding API server")

----------------------------------------------------------------------------
(* Properties of the embedding client *)

EmptyOrZero(embedding) ==
    \/ Len(embedding) = 0
    \/ \A i \in 1..Len(embedding) : embedding[i] = 0

\* C13: when the provider returns an empty or all-zero vector (for the text of
\* generateEmbedding, or for any item of a batch of generateEmbeddingsBatch),
\* the function fails with an error, and no empty or all-zero vector is ever
\* among the embeddings handed to the caller.
InvalidEmbeddingFails ==
    /\ (\E n \in 1..Len(emb.data) : EmptyOrZero(emb.data[n])) =>
           emb.pc = "threw" /\ emb.error # NoError
    /\ \A n \in 1..Len(emb.embeddings) : ~EmptyOrZero(emb.embeddings[n])

\* generateEmbeddingsBatch has pushed the embeddings of a first batch and
\* failed on the second batch, whose only item was an all-zero vector.
InvalidEmbeddingWitness ==
    /\ emb.fn = "generateEmbeddingsBatch"
    /\ emb.pc = "threw"
    /\ emb.data = << ZeroVector >>
    /\ Len(emb.embeddings) = 2
    /\ emb.error = Error("Failed to generate embeddings batch: Invalid embedding returned in batch")

\* The number of provider calls made for the batch in progress
BatchCalls == emb.calls[Len(emb.calls)]

\* C15: generateEmbeddingsBatch terminates for every sequence of provider
\* responses; it calls the provider at most EMBEDDING_MAX_RETRIES + 1 times
\* for each batch, calls again for the same batch only after a 429, fails
\* once a batch has had 429 on all its calls, and fails at once on any other
\* error.
BatchRetryBounded ==
    /\ [](emb.fn = "generateEmbeddingsBatch" =>
            /\ \A b \in 1..Len(emb.calls) : emb.calls[b] <= EMBEDDING_MAX_RETRIES + 1
            /\ emb.thrown # NoError /\ ~IsRateLimit(emb.thrown) =>
                   emb.pc = "threw" /\ emb.error # NoError
            /\ IsRateLimit(emb.thrown) /\ BatchCalls = EMBEDDING_MAX_RETRIES + 1 =>
                   emb.pc = "threw" /\ emb.error # NoError)
    /\ [][emb.fn = "generateEmbeddingsBatch" /\ emb'.pc = "loop" /\ emb'.i = emb.i
             => IsRateLimit(emb'.thrown)]_vars
    /\ <>(emb.pc \in {"returned", "threw"})

\* The first batch succeeded on its second call, and the second batch failed
\* after EMBEDDING_MAX_RETRIES + 1 calls that were all answered 429.
BatchRetryWitness ==
    /\ emb.fn = "generateEmbeddingsBatch"
    /\ emb.calls = << 2, EMBEDDING_MAX_RETRIES + 1 >>
    /\ emb.thrown = RateLimitError
    /\ emb.pc = "threw"

----------------------------------------------------------------------------
(* Properties of the similarity engine *)

\* C14: cosineSimilarity(a, b) fails with a dimension-mismatch error whenever
\* the two vectors have different lengths: no call on vectors of different
\* dimension returns a result, numeric or NaN.
DimensionMismatchFails ==
    Len(cos.vecA) # Len(cos.vecB) => cos.pc # "returned"

----------------------------------------------------------------------------
(* Properties of ingestion *)

\* An embedding row whose chunk row is gone
Dangling(e) == \A row \in db.chunks : row.rowid # e.rowid

\* C16: when processDocument has thrown, the tables hold no document row, no
\* chunk row and no embedding row of the document it was processing.
NoOrphanAfterFailure ==
    ing.pc = "threw" =>
        /\ documentId \notin db.documents
        /\ ChunkRows(db, documentId) = {}
        /\ EmbeddingRows(db, documentId) = {}
        /\ \A e \in db.vss_embeddings : ~Dangling(e)

\* C19: with chunkOverlap >= chunkSize, splitTextIntoChunks throws the
\* configuration error and returns no chunks for every text, the empty text
\* included; processDocument then goes to its catch block and throws that
\* error, and neither a chunk nor an embedding of the document is stored.
ConfigurationErrorIsFatal ==
    chunkOverlap >= chunkSize =>
        /\ ing.pc \in {"insertDocument", "extract", "split", "cleanup", "threw"}
        /\ splitter \in {"none", "threw"}
        /\ chunks = <<>>
        /\ splitter = "threw" =>
               /\ ing.pc \in {"cleanup", "threw"}
               /\ ing.error = Error("chunkOverlap must be smaller than chunkSize")
        /\ ChunkRows(db, documentId) = {}
        /\ EmbeddingRows(db, documentId) = {}
        /\ \A e \in db.vss_embeddings : ~Dangling(e)

\* processDocument has thrown the configuration error for an empty file,
\* with chunkOverlap equal to chunkSize.
ConfigurationErrorWitness ==
    /\ text = <<>>
    /\ chunkOverlap = chunkSize
    /\ splitter = "threw"
    /\ ing.pc = "threw"
    /\ ing.error = Error("chunkOverlap must be smaller than chunkSize")

----------------------------------------------------------------------------
(* Properties of the chat stream and of the order of the retrieval stages *)

Terminal(e) == e.event \in {"final", "error"}

TerminalEvents(r) == {n \in 1..Len(res[r].events) : Terminal(res[r].events[n])}

LastEvent(r) == res[r].events[Len(res[r].events)]

\* C17: every stream of GET /api/chat is ended, and an ended stream holds
\* exactly one terminal event, final or error, as its last event; nothing is
\* written to a stream after it was ended, and a stream whose processMessage
\* call failed (in retrieval or in answer generation) ends with error and
\* holds no final event.
StreamEndsWithOneTerminalEvent ==
    /\ [](\A r \in DOMAIN req :
            /\ res[r].writableEnded =>
                   /\ Cardinality(TerminalEvents(r)) = 1
                   /\ Terminal(LastEvent(r))
            /\ ~res[r].writableEnded => TerminalEvents(r) = {}
            /\ res[r].writableEnded /\ req[r].error # NoError =>
                   LastEvent(r).event = "error")
    /\ [][\A r \in DOMAIN req : res[r].writableEnded => res'[r] = res[r]]_vars
    /\ <>(\A r \in DOMAIN req : res[r].writableEnded)

\* A stream that carried a token, then lost the completion stream, and was
\* ended with the error event.
StreamEndsWitness ==
    \E r \in DOMAIN req :
        /\ res[r].writableEnded
        /\ Raised("completion", ServerError) \in req[r].raised
        /\ \E n \in 1..Len(res[r].events) : res[r].events[n].event = "token"
        /\ LastEvent(r) = [event |-> "error", data |-> ServerError.message]

\* The place of each position of a request in the order of the stages
StageRank(pc) ==
    CASE pc = "handler" -> 0
      [] pc = "start" -> 1
      [] pc = "initialSearch" -> 2
      [] pc = "hyde" -> 3
      [] pc = "embedHyde" -> 4
      [] pc = "finalSearch" -> 5
      [] pc = "rerank" -> 6
      [] OTHER -> 7

\* The place of each progress notification in the order of the stages
NotificationRank(message) ==
    CASE message = "Starting retrieval..." -> 1
      [] message = "Performing initial search..." -> 2
      [] message = "Generating context-aware answer..." -> 3
      [] message \in {"Generating Standard hypothetical answer...",
                      "Generating Context-Aware hypothetical answer..."} -> 4
      [] message = "Performing final search..." -> 5
      [] message = "Re-ranking results..." -> 6
      [] OTHER -> 7

Notified(progress, message) == \E n \in 1..Len(progress) : progress[n] = message

\* C18: within one retrieveRelevantChunks call the stages run in the order
\* embed query, preliminary search (deep mode only), HyDE, embedding of the
\* hypothetical document, final search, re-ranking: every step moves the
\* call to a later stage or retries the provider call of its stage; the
\* final search starts only when HyDE has resolved or fallen back, the
\* re-ranking only when the final search has completed; and the progress
\* notifications come in that order, none of them twice.
StagesRunInOrder ==
    [][\A r \in DOMAIN req :
          LET old == req[r]
              new == req'[r]
          IN  /\ StageRank(new.pc) >= StageRank(old.pc)
              /\ StageRank(new.pc) = StageRank(old.pc) /\ new # old =>
                     \/ new.retries = old.retries + 1
                     \/ StageRank(old.pc) = 7
              /\ new.pc = "initialSearch" => new.useDeepSearch
              /\ SubSeq(new.progress, 1, Len(old.progress)) = old.progress
              /\ \A m, n \in 1..Len(new.progress) :
                     m < n => NotificationRank(new.progress[m]) < NotificationRank(new.progress[n])
              /\ Notified(new.progress, "Performing final search...")
                     /\ ~Notified(old.progress, "Performing final search...") =>
                         /\ old.pc = "finalSearch"
                         /\ old.hypotheticalDocument \in Texts
                         /\ old.searchEmbedding =
                                IF old.hypotheticalDocument = Query THEN old.queryEmbedding
                                ELSE embedOf[old.hypotheticalDocument]
              /\ Notified(new.progress, "Re-ranking results...")
                     /\ ~Notified(old.progress, "Re-ranking results...") =>
                         /\ old.pc = "rerank"
                         /\ old.progress[Len(old.progress)] = "Performing final search..."]_vars

\* A deep-search retrieval has run all six stages, the embedding of the
\* hypothetical document after a retried 429, and has sent all its notifications.
StagesWitness ==
    \E r \in DOMAIN req :
        /\ req[r].pc = "format"
        /\ Raised("provider", RateLimitError) \in req[r].raised
        /\ req[r].progress = << "Starting retrieval...", "Performing initial search...",
                                "Generating context-aware answer...",
                                "Generating Context-Aware hypothetical answer...",
                                "Performing final search...", "Re-ranking results..." >>
        /\ req[r].searchEmbedding = embedOf["h2"]

----------------------------------------------------------------------------
(* The end-to-end scenario: a 2500-character plain text, chunkSize 1000,
   chunkOverlap 200 *)

\* A 2500-character plain text without repetition: the separator sep at every
\* position that is a multiple of period (no separator when period is 0), the
\* letter b at the other perfect squares and the letter a elsewhere.
ScenarioText(period, sep) ==
    [i \in 1..2500 |->
        IF period > 0 /\ i % period = 0 THEN sep
        ELSE IF \E r \in 1..50 : r * r = i THEN "b"
        ELSE "a"]

ScenarioTexts ==
    {ScenarioText(100 * k, sep) : k \in 0..MaxPeriod, sep \in {" ", NL, "."}}

ScenarioInit ==
    /\ text \in ScenarioTexts
    /\ chunkSize = 1000
    /\ chunkOverlap = 200
    /\ chunks = <<>>
    /\ splitter = "none"
    /\ MMRIdle
    /\ ChatIdle
    /\ EmbedIdle
    /\ CosineIdle
    /\ IngestIdle
    /\ ServerIdle

ScenarioNext == SplitRecursive \/ SplitSimple

SpecScenario == ScenarioInit /\ [][ScenarioNext]_vars

\* The longest trailing text of a that is also leading text of b
Shared(a, b) ==
    LET ns == {n \in 0..Min(Len(a), Len(b)) :
                   SubSeq(a, Len(a) - n + 1, Len(a)) = SubSeq(b, 1, n)}
    IN  CHOOSE n \in ns : \A m \in ns : m <= n

\* C20: splitting a 2500-character plain text with chunkSize 1000 and
\* chunkOverlap 200 yields exactly 3 chunks, each of at most 1000
\* characters, and adjacent chunks share at least 180 characters of
\* trailing/leading text.
ScenarioYieldsThreeOverlappingChunks ==
    splitter \in {"recursive", "window"} /\ Len(text) = 2500
        /\ chunkSize = 1000 /\ chunkOverlap = 200 =>
            /\ Len(chunks) = 3
            /\ \A n \in 1..Len(chunks) : Len(chunks[n]) <= 1000
            /\ \A n \in 1..(Len(chunks) - 1) : Shared(chunks[n], chunks[n + 1]) >= 180

----------------------------------------------------------------------------
(* Further properties of the chunker *)

Blank(s) == \A i \in 1..Len(s) : s[i] \in Whitespace

\* C22: the recursive splitTextIntoChunks never emits a chunk that is empty
\* after trimming whitespace, and the empty text and every whitespace-only
\* text yield the empty list.
NoBlankChunk ==
    splitter = "recursive" =>
        /\ \A n \in 1..Len(chunks) : ~Blank(chunks[n])
        /\ Blank(text) => chunks = <<>>

\* A whitespace-only text longer than chunkSize, whose pieces were split,
\* merged and then dropped by the final filter.
NoBlankChunkWitness ==
    /\ splitter = "recursive"
    /\ Len(text) > chunkSize
    /\ Blank(text)
    /\ \E i \in 1..Len(text) : text[i] = " "
    /\ chunks = <<>>

\* The chunks from the n-th on occur in the text at offsets that do not
\* decrease, the n-th at offset o or later.
RECURSIVE OccurFrom(_, _)
OccurFrom(n, o) ==
    \/ n > Len(chunks)
    \/ \E p \in o..(Len(text) - Len(chunks[n])) :
           /\ SubSeq(text, p + 1, p + Len(chunks[n])) = chunks[n]
           /\ OccurFrom(n + 1, p)

\* C29: every chunk emitted by the recursive splitTextIntoChunks is a
\* contiguous substring of the input text, and the chunks are emitted in
\* document order (their offsets in the text do not decrease).
ChunksAreSubstringsInOrder ==
    splitter = "recursive" => OccurFrom(1, 0)

----------------------------------------------------------------------------
(* Further properties of the re-ranker *)

\* Two passages are near-duplicates when the cosine similarity of their
\* embeddings is at least 0.96, and distinct when it is at most 0.64.
NearDuplicates(a, b) == cosineSimilarity(a.embedding, b.embedding) >= 24

DistinctPassages(a, b) == cosineSimilarity(a.embedding, b.embedding) <= 16

Returned(c) == \E n \in 1..Len(mmrResult) : mmrResult[n].chunk_id = c.chunk_id

\* C21: given three candidates of which two are near-duplicates of each other
\* and the third is distinct from both, maximalMarginalRelevance with k = 2
\* and lambda = 0.5 returns the distinct passage and exactly one passage of
\* the duplicate pair, whatever the relevance of the three passages.
MMRDropsOneDuplicate ==
    mmrPc = "returned" /\ Len(mmrChunks) = 3 /\ mmrK = 2 /\ mmrLambda2 = 1 =>
        \A i, j, l \in 1..3 :
            /\ i < j /\ l \notin {i, j}
            /\ NearDuplicates(mmrChunks[i], mmrChunks[j])
            /\ DistinctPassages(mmrChunks[i], mmrChunks[l])
            /\ DistinctPassages(mmrChunks[j], mmrChunks[l])
            => /\ Returned(mmrChunks[l])
               /\ Returned(mmrChunks[i]) # Returned(mmrChunks[j])

----------------------------------------------------------------------------
(* Further properties of retrieval and chat *)

\* The passages of a retrieval result that formatChunksForContext puts into
\* the context text
IncludedPassages(cs) == SubSeq(SortedChunks(cs), 1, FormatResult(cs).includedChunks)

\* C25: every passage returned by retrieveRelevantChunks and included in the
\* context text has a reported similarity score >= SIMILARITY_THRESHOLD.
IncludedPassagesReachThreshold ==
    \A r \in DOMAIN req :
        req[r].pc \in {"answer", "done"} =>
            LET included == IncludedPassages(req[r].relevantChunks)
            IN  \A n \in 1..Len(included) :
                    AboveThreshold(included[n], SIMILARITY_THRESHOLD)

\* C27: when the final vector-store search returns no candidates,
\* retrieveRelevantChunks returns an empty passage list without an error,
\* formatChunksForContext returns the empty string, and processMessage can
\* still return an answer, whose source list is empty.
EmptySearchStillAnswers ==
    \A r \in DOMAIN req :
        req[r].pc \in {"format", "answer", "done"} /\ req[r].similarChunks = <<>> =>
            /\ req[r].relevantChunks = <<>>
            /\ req[r].error = NoError
            /\ req[r].pc \in {"answer", "done"} => req[r].context = <<>>
            /\ req[r].pc = "answer" => ENABLED Respond(r)
            /\ req[r].pc = "done" => req[r].sourceChunks = <<>>

\* processMessage returned although the store holds rows: the final search
\* kept none of them.
EmptySearchWitness ==
    \E r \in DOMAIN req :
        /\ req[r].pc = "done"
        /\ store # <<>>
        /\ req[r].similarChunks = <<>>
        /\ req[r].sourceChunks = <<>>

\* The data of the token events of a stream, in the order they were written
Tokens(events) ==
    LET tokens == SelectSeq(events, LAMBDA e : e.event = "token")
    IN  [n \in 1..Len(tokens) |-> tokens[n].data]

\* C28: in streaming mode the answer carried by the final event is exactly
\* the concatenation, in emission order, of all token events of the stream;
\* every token event precedes the final event and follows every progress event.
FinalIsConcatenationOfTokens ==
    \A r \in DOMAIN res :
        LET events == res[r].events
        IN  \A n \in 1..Len(events) :
                /\ events[n].event = "final" =>
                       /\ events[n].data = Flatten(Tokens(events))
                       /\ \A m \in 1..Len(events) : events[m].event = "token" => m < n
                /\ events[n].event = "token" =>
                       \A m \in 1..Len(events) : events[m].event = "progress" => m < n

\* A finished stream with two different tokens, y z before x
FinalIsConcatenationWitness ==
    \E r \in DOMAIN res :
        /\ res[r].writableEnded
        /\ Tokens(res[r].events) = << <<"y", "z">>, <<"x">> >>
        /\ res[r].events[Len(res[r].events)] = [event |-> "final", data |-> <<"y", "z", "x">>]

\* retrieveRelevantChunks has returned its passage list
Retrieved(r) == Notified(req[r].progress, "Re-ranking results...")

\* The final search used searchEmbedding, and the re-ranking the embedding of
\* the original query
SearchedAndRanked(r, searchEmbedding) ==
    /\ req[r].similarChunks = searchSimilarEmbeddings(searchEmbedding, 50, SIMILARITY_THRESHOLD)
    /\ req[r].relevantChunks = maximalMarginalRelevance(embedOf[Query], req[r].similarChunks, 1, 10)
    /\ \A n \in 1..Len(req[r].relevantChunks) :
           req[r].relevantChunks[n].similarity =
               cosineSimilarity(embedOf[Query], req[r].relevantChunks[n].embedding)

\* C30 as stated: when generateHypotheticalDocument returned the original
\* query the embedding provider is called exactly once in the whole
\* retrieveRelevantChunks call and the final search uses the query embedding;
\* otherwise it is called exactly twice and the final search uses the
\* embedding of the hypothetical document; the MMR relevance is computed
\* against the original query embedding.
ProviderCalledOncePerText ==
    \A r \in DOMAIN req :
        Retrieved(r) =>
            IF req[r].hypotheticalDocument = Query
            THEN req[r].providerCalls = 1 /\ SearchedAndRanked(r, embedOf[Query])
            ELSE req[r].providerCalls = 2
                     /\ SearchedAndRanked(r, embedOf[req[r].hypotheticalDocument])

\* C30, amended: generateEmbedding is called exactly once when HyDE fell back
\* to the query and exactly twice otherwise, each call sending between 1 and
\* EMBEDDING_MAX_RETRIES + 1 requests to the provider; the final search uses
\* the query embedding in the first case and the embedding of the
\* hypothetical document in the second; the MMR relevance is computed
\* against the original query embedding.
EmbeddingCalledOncePerText ==
    \A r \in DOMAIN req :
        Retrieved(r) =>
            /\ req[r].providerCalls >= req[r].embedCalls
            /\ req[r].providerCalls <= req[r].embedCalls * (EMBEDDING_MAX_RETRIES + 1)
            /\ IF req[r].hypotheticalDocument = Query
               THEN req[r].embedCalls = 1 /\ SearchedAndRanked(r, embedOf[Query])
               ELSE req[r].embedCalls = 2
                        /\ SearchedAndRanked(r, embedOf[req[r].hypotheticalDocument])

\* A retrieval that embedded a hypothetical document after one retried 429
\* and returned passages
EmbeddingCalledWitness ==
    \E r \in DOMAIN req :
        /\ Retrieved(r)
        /\ req[r].hypotheticalDocument \notin {Query, ""}
        /\ req[r].embedCalls = 2
        /\ req[r].providerCalls = 3
        /\ req[r].relevantChunks # <<>>

----------------------------------------------------------------------------
(* The documents API: POST /api/documents and DELETE /api/documents/:id *)

\* req.body.hash of the uploaded files, and the file_hash of the stored document
Hashes == {"h1", "h2"}
StoredHash == "h1"

\* crypto.randomUUID() of the processDocument call of the r-th upload
DocIds == <<"d1", "d2", "d3", "d4">>
UploadId(r) == DocIds[r]

\* The file_hash column of the documents row with the given id
FileHash(id) ==
    IF id = StoredDocument THEN StoredHash
    ELSE up.reqs[CHOOSE r \in DOMAIN up.reqs : UploadId(r) = id].hash

\* findDocumentByHash(fileHash): whether a row is found
findDocumentByHash(table, fileHash) == \E id \in table.documents : FileHash(id) = fileHash

\* The tables before any upload, and with one complete document
EmptyTables == [documents |-> {}, chunks |-> {}, vss_embeddings |-> {}]

OneDocumentTables ==
    [documents |-> {StoredDocument},
     chunks |-> {[rowid |-> 1, document_id |-> StoredDocument, content |-> <<"a">>]},
     vss_embeddings |-> {[rowid |-> 1, embedding |-> <<5, 0, 0>>]}]

\* An upload that has not reached the route handler yet
NewUpload(hash) == [hash |-> hash, pc |-> "pending", existingDoc |-> FALSE, status |-> 0]

\* The last deleteDocument call: del.n counts the calls
DocsInit ==
    /\ up \in {[reqs |-> reqs, del |-> [n |-> 0, id |-> "", threw |-> FALSE]] :
                  reqs \in [1..MaxUploads -> {NewUpload(hash) : hash \in Hashes}]}
    /\ db \in {EmptyTables, OneDocumentTables}
    /\ ing = <<>>
    /\ srv = <<>>
    /\ ChunkIdle
    /\ MMRIdle
    /\ ChatIdle
    /\ EmbedIdle
    /\ CosineIdle

notDocsVars == <<chunkVars, mmrVars, chatVars, emb, cos, ing, srv>>

\* Mutant of NoMicrotaskPending: another request may run between the call of
\* findDocumentByHash and the continuation of the handler.
NoMicrotaskPendingUnchecked == TRUE

\* await findDocumentByHash(fileHash) awaits the value of a synchronous call:
\* the handler continues as a microtask, and the microtask queue is emptied
\* before the event loop runs the callback of another request or I/O completion.
NoMicrotaskPending == \A q \in DOMAIN up.reqs : up.reqs[q].pc # "checked"

UploadStep(r, next) ==
    /\ up' = [up EXCEPT !.reqs[r] = next]
    /\ UNCHANGED notDocsVars

\* The deleteDocument call that follows
Deleted(id, threw) == [n |-> up.del.n + 1, id |-> id, threw |-> threw]

\* POST /api/documents up to await findDocumentByHash(fileHash)
HandlerStarts(r) ==
    /\ up.reqs[r].pc = "pending"
    /\ NoMicrotaskPending
    /\ UploadStep(r, [up.reqs[r] EXCEPT !.existingDoc = findDocumentByHash(db, up.reqs[r].hash),
                                         !.pc = "checked"])
    /\ UNCHANGED db

\* if (existingDoc) return res.status(409).json(...)
DuplicateRejected(r) ==
    /\ up.reqs[r].pc = "checked"
    /\ up.reqs[r].existingDoc
    /\ UploadStep(r, [up.reqs[r] EXCEPT !.status = 409, !.pc = "responded"])
    /\ UNCHANGED db

\* processDocument(req.file, fileHash) up to await insertDocument(document)
InsertUploaded(r) ==
    /\ up.reqs[r].pc = "checked"
    /\ ~up.reqs[r].existingDoc
    /\ db' = [db EXCEPT !.documents = @ \cup {UploadId(r)}]
    /\ UploadStep(r, [up.reqs[r] EXCEPT !.pc = "extract"])

\* The text was read: splitTextIntoChunks and await insertChunks(chunkRecords)
UploadChunks(r) ==
    /\ up.reqs[r].pc = "extract"
    /\ NoMicrotaskPending
    /\ db' = insertChunks(db, UploadId(r), << <<"a">> >>)
    /\ UploadStep(r, [up.reqs[r] EXCEPT !.pc = "embed"])

\* generateEmbeddingsBatch returned: insertEmbedding, then res.status(201)
UploadEmbeddings(r) ==
    /\ up.reqs[r].pc = "embed"
    /\ NoMicrotaskPending
    /\ db' = insertEmbedding(db, UploadId(r), 1, <<5, 0, 0>>)
    /\ UploadStep(r, [up.reqs[r] EXCEPT !.status = 201, !.pc = "responded"])

\* Reading the file, the splitter or generateEmbeddingsBatch throws: the catch
\* block of processDocument calls deleteDocument(documentId) and rethrows, and
\* the route answers 500
UploadFails(r) ==
    /\ up.reqs[r].pc \in {"extract", "embed"}
    /\ NoMicrotaskPending
    /\ db' = deleteDocument(db, UploadId(r))
    /\ up' = [up EXCEPT !.reqs[r] = [@ EXCEPT !.status = 500, !.pc = "responded"],
                        !.del = Deleted(UploadId(r), FALSE)]
    /\ UNCHANGED notDocsVars

\* The same when deleteDocument throws in the catch block: the error is
\* logged, the first error is rethrown and the route answers 500
UploadFailsCleanupThrows(r) ==
    /\ up.reqs[r].pc \in {"extract", "embed"}
    /\ NoMicrotaskPending
    /\ up' = [up EXCEPT !.reqs[r] = [@ EXCEPT !.status = 500, !.pc = "responded"],
                        !.del = Deleted(UploadId(r), TRUE)]
    /\ UNCHANGED db
    /\ UNCHANGED notDocsVars

\* The documents a client deletes: those listed whose processing is over
Deletable ==
    {id \in db.documents :
        \/ id = StoredDocument
        \/ \E r \in DOMAIN up.reqs : UploadId(r) = id /\ up.reqs[r].pc = "responded"}

\* DELETE /api/documents/:id: deleteDocument(id) commits its transaction
DeleteRequest(id) ==
    /\ up.del.n < MaxDeletes
    /\ NoMicrotaskPending
    /\ db' = deleteDocument(db, id)
    /\ up' = [up EXCEPT !.del = Deleted(id, FALSE)]
    /\ UNCHANGED notDocsVars

\* DELETE /api/documents/:id: a statement of the transaction throws and the
\* transaction is rolled back
DeleteRequestFails(id) ==
    /\ up.del.n < MaxDeletes
    /\ NoMicrotaskPending
    /\ up' = [up EXCEPT !.del = Deleted(id, TRUE)]
    /\ UNCHANGED db
    /\ UNCHANGED notDocsVars

DocsNext ==
    \/ \E r \in DOMAIN up.reqs : HandlerStarts(r)
    \/ \E r \in DOMAIN up.reqs : DuplicateRejected(r)
    \/ \E r \in DOMAIN up.reqs : InsertUploaded(r)
    \/ \E r \in DOMAIN up.reqs : UploadChunks(r)
    \/ \E r \in DOMAIN up.reqs : UploadEmbeddings(r)
    \/ \E r \in DOMAIN up.reqs : UploadFails(r)
    \/ \E r \in DOMAIN up.reqs : UploadFailsCleanupThrows(r)
    \/ \E id \in Deletable : DeleteRequest(id)
    \/ \E id \in Deletable : DeleteRequestFails(id)

SpecDocs == DocsInit /\ [][DocsNext]_vars

\* C23: after any sequence of overlapping uploads, failing ones included, no
\* two stored documents have the same file hash; the hash lookup an upload
\* acts on is the state of the store at the time it acts, and an upload
\* answered 409 found its hash in the store and created no record.
NoDuplicateDocuments ==
    /\ \A a \in db.documents : \A b \in db.documents :
           a # b => FileHash(a) # FileHash(b)
    /\ \A r \in DOMAIN up.reqs :
           /\ up.reqs[r].pc = "checked" =>
                  up.reqs[r].existingDoc = findDocumentByHash(db, up.reqs[r].hash)
           /\ up.reqs[r].status = 409 =>
                  /\ up.reqs[r].existingDoc
                  /\ UploadId(r) \notin db.documents
                  /\ ChunkRows(db, UploadId(r)) = {}
           /\ up.reqs[r].status = 201 => ~up.reqs[r].existingDoc

\* An upload was answered 409 while the upload of the same file that came
\* first is still being processed.
NoDuplicateDocumentsWitness ==
    /\ up # <<>>
    /\ \E r \in DOMAIN up.reqs : \E q \in DOMAIN up.reqs :
           /\ r # q
           /\ up.reqs[r].hash = up.reqs[q].hash
           /\ up.reqs[r].status = 409
           /\ up.reqs[q].pc \in {"extract", "embed"}
           /\ UploadId(q) \in db.documents

\* C26: a deleteDocument call that succeeds leaves neither the document row
\* nor a chunk row of the document nor the embedding of one of its chunks,
\* and leaves the rows of the other documents; one that throws leaves the
\* three tables as they were.
DeletedAsUnit ==
    [][up # <<>> /\ up'.del.n # up.del.n =>
          LET id == up'.del.id
              rowids == {row.rowid : row \in ChunkRows(db, id)}
          IN  IF up'.del.threw
              THEN db' = db
              ELSE /\ db'.documents = db.documents \ {id}
                   /\ db'.chunks = db.chunks \ ChunkRows(db, id)
                   /\ db'.vss_embeddings =
                          {e \in db.vss_embeddings : e.rowid \notin rowids}]_vars

\* A complete document was deleted while another document stays in the store:
\* only the rows of the other document are left.
DeletedAsUnitWitness ==
    /\ up # <<>>
    /\ up.del.n > 0
    /\ ~up.del.threw
    /\ up.del.id = StoredDocument
    /\ db.documents # {}
    /\ db.chunks # {}
    /\ db.vss_embeddings # {}
    /\ Cardinality(db.vss_embeddings) = Cardinality(db.chunks)

----------------------------------------------------------------------------
(* Startup: checkEmbeddingRequirements, initializeDatabase, app.listen *)

\* The values of process.env.EMBEDDING_DIMENSIONS; <<>> is the unset variable
DimensionSettings == {<<>>, <<"3">>, <<"1", "2">>, <<"a">>, <<"3", "x">>}

IsDigit(c) == \E i \in DOMAIN Digits : Digits[i] = c
DigitValue(c) == (CHOOSE i \in DOMAIN Digits : Digits[i] = c) - 1

RECURSIVE ParseDigits(_, _, _)
ParseDigits(s, i, n) ==
    IF i > Len(s) \/ ~IsDigit(s[i]) THEN n
    ELSE ParseDigits(s, i + 1, 10 * n + DigitValue(s[i]))

\* parseInt(EMBEDDING_DIMENSIONS): the value of the leading digits
StartsWithDigit(s) == s # <<>> /\ IsDigit(s[1])
parseInt(s) == IF StartsWithDigit(s) THEN ParseDigits(s, 1, 0) ELSE NaN

\* What the provider answers to createEmbedding(model, 'test')
TestResponses ==
    {ErrorResponse(error) : error \in ProviderErrors}
        \cup {DataResponse(v) : v \in {EmptyVector, ZeroVector, <<5, 0, 0>>, <<3, 4, 0, 0>>}}

\* checkEmbeddingApiAvailability: the value returned for a response that is
\* not retried
isApiAvailable(response) == response.error = NoError /\ Len(response.embedding) # 0

\* Mutant of RequirementsMet: startServer goes on whatever the check returned.
RequirementsMetAlways(embeddingRequirementsMet) == TRUE

\* if (!embeddingRequirementsMet) { process.exit(1); }
RequirementsMet(embeddingRequirementsMet) == embeddingRequirementsMet

\* The tables of initializeDatabase
AllTables == {"documents", "chunks", "vss_embeddings"}

\* The process when startServer() is called; dimensions is <<>> while the
\* variable of initializeDatabase is unassigned
StartupInit ==
    /\ srv \in {[EMBEDDING_DIMENSIONS |-> setting, pc |-> "start", retries |-> 0,
                 modelRetries |-> 0, error |-> NoError,
                 checked |-> FALSE, embeddingRequirementsMet |-> FALSE,
                 dimensions |-> <<>>, tables |-> {},
                 listening |-> FALSE, exited |-> FALSE, exitCode |-> 0] :
                    setting \in DimensionSettings}
    /\ up = <<>>
    /\ IngestIdle
    /\ ChunkIdle
    /\ MMRIdle
    /\ ChatIdle
    /\ EmbedIdle
    /\ CosineIdle

notStartupVars == <<chunkVars, mmrVars, chatVars, emb, cos, ingestVars, up>>

\* process.exit(code)
Exit(code) == [srv EXCEPT !.pc = "exited", !.exited = TRUE, !.exitCode = code]

\* startServer's catch block: the error is reported, then process.exit(1)
Caught(error) == [Exit(1) EXCEPT !.error = error]

\* checkEmbeddingRequirements up to its return or to the first request of
\* checkEmbeddingApiAvailability
CheckRequirements ==
    /\ srv.pc = "start"
    /\ srv' = IF srv.EMBEDDING_DIMENSIONS # <<>>
              THEN [srv EXCEPT !.pc = "checked", !.embeddingRequirementsMet = TRUE]
              ELSE [srv EXCEPT !.pc = "probe"]
    /\ UNCHANGED notStartupVars

\* checkEmbeddingApiAvailability: a 429 answer within the retry budget
AvailabilityRateLimited ==
    /\ srv.pc = "probe"
    /\ Retries(RateLimitError, srv.retries)
    /\ srv' = [srv EXCEPT !.retries = @ + 1]
    /\ UNCHANGED notStartupVars

\* checkEmbeddingApiAvailability returns: data, an error that is not retried,
\* or a 429 answer beyond the retry budget
AvailabilityAnswers(response) ==
    /\ srv.pc = "probe"
    /\ ~Retries(response.error, srv.retries)
    /\ srv' = [srv EXCEPT !.pc = "checked",
                          !.checked = TRUE,
                          !.retries = IF IsRateLimit(response.error) THEN @ + 1 ELSE @,
                          !.embeddingRequirementsMet = isApiAvailable(response)]
    /\ UNCHANGED notStartupVars

\* startServer: the requirements are not met
AbortStartup ==
    /\ srv.pc = "checked"
    /\ ~RequirementsMet(srv.embeddingRequirementsMet)
    /\ srv' = Exit(1)
    /\ UNCHANGED notStartupVars

\* initializeDatabase with EMBEDDING_DIMENSIONS set: the three tables are
\* created unless the dimension is not a number, which the vss0 module
\* rejects; startServer's catch block then exits
InitializeConfigured ==
    /\ srv.pc = "checked"
    /\ RequirementsMet(srv.embeddingRequirementsMet)
    /\ srv.EMBEDDING_DIMENSIONS # <<>>
    /\ LET dimensions == parseInt(srv.EMBEDDING_DIMENSIONS)
       IN  srv' = IF ~StartsWithDigit(srv.EMBEDDING_DIMENSIONS)
                  THEN [Caught(SqliteError) EXCEPT !.dimensions = <<dimensions>>,
                                                    !.tables = {"documents", "chunks"}]
                  ELSE [srv EXCEPT !.pc = "ready", !.dimensions = <<dimensions>>,
                                   !.tables = AllTables]
    /\ UNCHANGED notStartupVars

\* initializeDatabase with EMBEDDING_DIMENSIONS unset, up to
\* await generateEmbedding('test')
InitializeAsksModel ==
    /\ srv.pc = "checked"
    /\ RequirementsMet(srv.embeddingRequirementsMet)
    /\ srv.EMBEDDING_DIMENSIONS = <<>>
    /\ srv' = [srv EXCEPT !.pc = "model", !.tables = {"documents", "chunks"}]
    /\ UNCHANGED notStartupVars

\* A db.exec of initializeDatabase throws: startServer's catch block exits
InitializeThrows ==
    /\ srv.pc = "checked"
    /\ RequirementsMet(srv.embeddingRequirementsMet)
    /\ srv' = Caught(SqliteError)
    /\ UNCHANGED notStartupVars

\* generateEmbedding('test'): a 429 answer within the retry budget
ModelRateLimited ==
    /\ srv.pc = "model"
    /\ Retries(RateLimitError, srv.modelRetries)
    /\ srv' = [srv EXCEPT !.modelRetries = @ + 1]
    /\ UNCHANGED notStartupVars

\* generateEmbedding('test') returns or throws: the dimension is the length
\* of the embedding and the vss_embeddings table is created, or startServer's
\* catch block exits
ModelAnswers(response) ==
    /\ srv.pc = "model"
    /\ ~Retries(response.error, srv.modelRetries)
    /\ srv' = IF Thrown(response) = NoError
              THEN [srv EXCEPT !.pc = "ready",
                               !.dimensions = <<Len(response.embedding)>>,
                               !.tables = AllTables]
              ELSE [Caught(generateEmbeddingError(Thrown(response))) EXCEPT
                        !.modelRetries = IF IsRateLimit(response.error) THEN @ + 1 ELSE @]
    /\ UNCHANGED notStartupVars

\* app.listen(PORT, ...)
Listen ==
    /\ srv.pc = "ready"
    /\ srv' = [srv EXCEPT !.pc = "listening", !.listening = TRUE]
    /\ UNCHANGED notStartupVars

StartupNext ==
    \/ CheckRequirements
    \/ AvailabilityRateLimited
    \/ \E response \in TestResponses : AvailabilityAnswers(response)
    \/ AbortStartup
    \/ InitializeConfigured
    \/ InitializeAsksModel
    \/ InitializeThrows
    \/ ModelRateLimited
    \/ \E response \in TestResponses : ModelAnswers(response)
    \/ Listen

\* Every request to the provider is answered and every continuation runs
SpecStartup == StartupInit /\ [][StartupNext]_vars /\ WF_vars(StartupNext)

\* The availability check of a process without EMBEDDING_DIMENSIONS returned false
Unavailable ==
    /\ srv.EMBEDDING_DIMENSIONS = <<>>
    /\ srv.checked
    /\ ~srv.embeddingRequirementsMet

\* initializeDatabase has assigned dimensions, from a number
DimensionDetermined ==
    /\ srv.dimensions # <<>>
    /\ srv.EMBEDDING_DIMENSIONS = <<>> \/ StartsWithDigit(srv.EMBEDDING_DIMENSIONS)

====
